---------------------------- MODULE Spec2Model ----------------------------
(***************************************************************************)
(* Model of the Quartiles solver (src/src/solver.rs) and of the dictionary *)
(* queries it relies on (src/src/dictionary.rs).                           *)
(*                                                                         *)
(* A word is a finite sequence of characters; a character is a natural     *)
(* number.  A FragmentPath is the array [Option<usize>; 4], modelled as a  *)
(* 4-tuple whose entries are None or a fragment index.  Slots are numbered *)
(* 1..4 here and 0..3 in the source.                                       *)
(***************************************************************************)
EXTENDS Integers, Sequences, FiniteSets, TLC

(***************************************************************************)
(* Program constants.                                                      *)
(***************************************************************************)
\* Option::None of a slot.  Rust orders None below every Some(_), which the
\* integer order on -1 and the indices reproduces.
None == -1

\* fragments: [str8; 20]
NumFragments == 20

\* let mut stop_index = 19;
MaxIndex == 19

\* FragmentPath([Option<usize>; 4])
PathCapacity == 4

\* "at least 5 distinct full words": if unique.len() < 5
MinFullWords == 5

Indices == 0 .. (NumFragments - 1)

Slots == 1 .. PathCapacity

(***************************************************************************)
(* FragmentPath.                                                           *)
(***************************************************************************)
\* FragmentPath::default()
EmptyPath == [s \in Slots |-> None]

\* self.0.iter().rposition(|&index| index.is_some()): the rightmost occupied
\* slot, 0 when there is none.
Rightmost(p) ==
    IF \E s \in Slots : p[s] # None
    THEN CHOOSE s \in Slots : p[s] # None /\ \A t \in Slots : p[t] # None => t <= s
    ELSE 0

\* self.0.iter().take(n).flatten(): the indices held by the first n slots.
Taken(p, n) == { p[s] : s \in { t \in Slots : t <= n /\ p[t] # None } }

\* self.0.iter().flatten(), as a set.
Flattened(p) == Taken(p, PathCapacity)

\* self.0.iter().flatten(), in slot order.
RECURSIVE FlattenedSeq(_, _)
FlattenedSeq(p, s) ==
    IF s > PathCapacity THEN << >>
    ELSE (IF p[s] # None THEN << p[s] >> ELSE << >>) \o FlattenedSeq(p, s + 1)

is_empty(p) == p[1] = None

is_full(p) == p[PathCapacity] # None

Ok(p) == [ok |-> TRUE, path |-> p, err |-> "None"]

Err(e) == [ok |-> FALSE, path |-> EmptyPath, err |-> e]

\* Mutant of StartIndex: the used indices are not skipped.
StartIndexNoSkip(used, start_index) == start_index

\* while used.contains(&start_index) { start_index += 1; }
RECURSIVE StartIndex(_, _)
StartIndex(used, start_index) ==
    IF start_index \in used THEN StartIndex(used, start_index + 1) ELSE start_index

\* Mutant of append: the search for the new index starts after the index of
\* the rightmost occupied slot.
append_after_rightmost(p) ==
    IF is_full(p)
    THEN Err("Overflow")
    ELSE LET rightmost == Rightmost(p)
             used == Flattened(p)
             start_index == StartIndex(used, IF rightmost = 0 THEN 0 ELSE p[rightmost] + 1)
         IN Ok([p EXCEPT ![rightmost + 1] = start_index])

append(p) ==
    IF is_full(p)
    THEN Err("Overflow")
    ELSE LET rightmost == Rightmost(p)
             used == Flattened(p)
             start_index == StartIndex(used, 0)
         IN Ok([p EXCEPT ![rightmost + 1] = start_index])

\* while used.contains(&stop_index) { stop_index -= 1; }
RECURSIVE StopIndex(_, _)
StopIndex(used, stop_index) ==
    IF stop_index \in used THEN StopIndex(used, stop_index - 1) ELSE stop_index

\* Mutant of IncrementLoop: the incremented index is taken even when another
\* slot holds it.
IncrementLoopNoSkip(fragment, rightmost, used, stop_index) ==
    IF fragment[rightmost] >= stop_index
    THEN Err("IndexOverflow")
    ELSE Ok([fragment EXCEPT ![rightmost] = fragment[rightmost] + 1])

\* Mutant of IncrementLoop: the ceiling itself may be exceeded.
RECURSIVE IncrementLoopStrict(_, _, _, _)
IncrementLoopStrict(fragment, rightmost, used, stop_index) ==
    IF fragment[rightmost] > stop_index
    THEN Err("IndexOverflow")
    ELSE LET next == fragment[rightmost] + 1
             bumped == [fragment EXCEPT ![rightmost] = next]
         IN IF next \notin used
            THEN Ok(bumped)
            ELSE IncrementLoopStrict(bumped, rightmost, used, stop_index)

\* The loop of increment: fragment[rightmost] >= Some(stop_index) is the
\* comparison of Option<usize>.
RECURSIVE IncrementLoop(_, _, _, _)
IncrementLoop(fragment, rightmost, used, stop_index) ==
    IF fragment[rightmost] >= stop_index
    THEN Err("IndexOverflow")
    ELSE LET next == fragment[rightmost] + 1
             bumped == [fragment EXCEPT ![rightmost] = next]
         IN IF next \notin used
            THEN Ok(bumped)
            ELSE IncrementLoop(bumped, rightmost, used, stop_index)

\* Mutant of increment: at the ceiling the rightmost index wraps around to
\* the smallest index that no other slot holds.
increment_wrapping(p) ==
    LET rightmost == Rightmost(p)
    IN IF rightmost = 0
       THEN Err("CannotIncrementEmpty")
       ELSE LET used == Taken(p, rightmost - 1)
                stop_index == StopIndex(used, MaxIndex)
            IN IF p[rightmost] >= stop_index
               THEN Ok([p EXCEPT ![rightmost] = StartIndex(used, 0)])
               ELSE IncrementLoop(p, rightmost, used, stop_index)

increment(p) ==
    LET rightmost == Rightmost(p)
    IN IF rightmost = 0
       THEN Err("CannotIncrementEmpty")
       ELSE LET used == Taken(p, rightmost - 1)
                stop_index == StopIndex(used, MaxIndex)
            IN IncrementLoop(p, rightmost, used, stop_index)

\* Mutant of pop: the leftmost slot is cleared.
pop_leftmost(p) ==
    IF is_empty(p)
    THEN Err("Underflow")
    ELSE Ok([p EXCEPT ![1] = None])

pop(p) ==
    IF is_empty(p)
    THEN Err("Underflow")
    ELSE Ok([p EXCEPT ![Rightmost(p)] = None])

\* Mutant of PopAndIncrementLoop: a single pop and increment, whose error is
\* returned.
PopAndIncrementOnce(fragment) ==
    LET popped == pop(fragment)
    IN IF ~popped.ok THEN popped ELSE increment(popped.path)

\* loop { fragment = fragment.pop()?; match fragment.increment() ... }
RECURSIVE PopAndIncrementLoop(_)
PopAndIncrementLoop(fragment) ==
    LET popped == pop(fragment)
    IN IF ~popped.ok
       THEN popped
       ELSE LET inc == increment(popped.path)
            IN IF inc.ok THEN inc
               ELSE IF inc.err = "IndexOverflow" THEN PopAndIncrementLoop(popped.path)
               ELSE IF inc.err = "CannotIncrementEmpty" THEN Err("CannotIncrementEmpty")
               ELSE Err("unreachable")

pop_and_increment(p) == PopAndIncrementLoop(p)

\* The scan of is_disjoint over the occupied slots in slot order: false at the
\* first index already seen.
RECURSIVE DisjointScan(_, _)
DisjointScan(indices, seen) ==
    IF indices = << >> THEN TRUE
    ELSE IF Head(indices) \in seen THEN FALSE
    ELSE DisjointScan(Tail(indices), seen \cup {Head(indices)})

is_disjoint(p) == DisjointScan(FlattenedSeq(p, 1), {})


\* Mutant of Advance: an IndexOverflow of increment is taken for the end of
\* the search, without pop_and_increment.
AdvanceStoppingAtOverflow(p, descend) ==
    LET app == IF descend THEN append(p) ELSE Err("NotTried")
        after_append == IF app.ok THEN app.path ELSE p
    IN IF descend /\ ~app.ok /\ app.err # "Overflow"
       THEN [path |-> p, outcome |-> "unreachable"]
       ELSE IF after_append # p
       THEN [path |-> after_append, outcome |-> "moved"]
       ELSE LET inc == increment(p)
            IN IF inc.ok
               THEN [path |-> inc.path, outcome |-> "moved"]
               ELSE IF inc.err = "IndexOverflow"
               THEN [path |-> p, outcome |-> "exhausted"]
               ELSE [path |-> p, outcome |-> "unreachable"]

\* One pass of the cursor logic in the loop of solve (the prefix test is passed
\* in as descend): append when the word is a prefix, else increment, else
\* pop_and_increment.  outcome is "moved", "exhausted" (CannotIncrementEmpty
\* from pop_and_increment: the caller sets is_finished and returns) or
\* "unreachable" (an unreachable!() arm is hit: the thread panics).
Advance(p, descend) ==
    LET app == IF descend THEN append(p) ELSE Err("NotTried")
        after_append == IF app.ok THEN app.path ELSE p
    IN IF descend /\ ~app.ok /\ app.err # "Overflow"
       THEN [path |-> p, outcome |-> "unreachable"]
       ELSE IF after_append # p
       THEN [path |-> after_append, outcome |-> "moved"]
       ELSE LET inc == increment(p)
            IN IF inc.ok
               THEN [path |-> inc.path, outcome |-> "moved"]
               ELSE IF inc.err = "IndexOverflow"
               THEN LET pai == pop_and_increment(p)
                    IN IF pai.ok
                       THEN [path |-> pai.path, outcome |-> "moved"]
                       ELSE IF pai.err = "CannotIncrementEmpty"
                       THEN [path |-> p, outcome |-> "exhausted"]
                       ELSE [path |-> p, outcome |-> "unreachable"]
               ELSE [path |-> p, outcome |-> "unreachable"]

(***************************************************************************)
(* Words and the dictionary.                                               *)
(***************************************************************************)
IsPrefix(q, w) == Len(q) <= Len(w) /\ SubSeq(w, 1, Len(q)) = q

\* Concatenation of the fragments named by a sequence of indices.
RECURSIVE Concat(_, _)
Concat(indices, frags) ==
    IF indices = << >> THEN << >>
    ELSE frags[Head(indices)] \o Concat(Tail(indices), frags)

\* FragmentPath::word: the fragments of the occupied slots, in slot order.
word(p, frags) == Concat(FlattenedSeq(p, 1), frags)

\* Mutant of contains: a word counts as contained when it is a prefix of a
\* stored word.
contains_as_prefix(dict, w) == \E x \in dict : IsPrefix(w, x)

\* Dictionary::contains: exact membership in the stored set of words.
contains(dict, w) == w \in dict

\* Mutant of contains_prefix: a stored word does not count as its own
\* prefix.
contains_prefix_proper(dict, q) == \E w \in dict : IsPrefix(q, w) /\ q # w

\* Mutant of contains_prefix: only a stored word counts as a prefix.
contains_prefix_exact(dict, q) == q \in dict

\* Dictionary::contains_prefix: some stored word starts with the prefix.
contains_prefix(dict, q) == \E w \in dict : IsPrefix(q, w)


(***************************************************************************)
(* Solver.                                                                 *)
(***************************************************************************)
VARIABLES
    dictionary,   \* Solver.dictionary: the set of stored words
    fragments,    \* Solver.fragments: index -> fragment text
    path,         \* Solver.path: the cursor
    solution,     \* Solver.solution: Vec<FragmentPath>
    is_finished,  \* Solver.is_finished
    pc,           \* "idle": the caller owns the solver; "loop": inside solve,
                  \* at the top of its loop; "unreachable", "assert_disjoint",
                  \* "assert_progress": the thread panicked there
    duration,     \* the argument of the solve call in progress ("zero" when
                  \* there is none)
    found_word,   \* the local found_word of the current (or last) solve call
    returned,     \* Option<FragmentPath> returned by the last solve call, once
                  \* it has returned: << >> is None, << p >> is Some(p)
    caller,       \* "user", "solve_fully" (inside its while loop) or
                  \* "solve_fully_done" (solve_fully has returned the solver)
    ecount,       \* paths produced by the unpruned enumeration (SpecEnum)
    parked,       \* a second Solver built on the same dictionary, held by
                  \* the caller while the first one is in use: its fragments,
                  \* path, solution and is_finished (SpecShared)
    txt,          \* the word list <name>.txt: Missing or a file (SpecOpen)
    cache,        \* the binary dictionary <name>.dict: Missing or a file
    opened,       \* the outcome of the last call that builds a Dictionary
                  \* from a file (open, read_from_file, deserialize_from_file)
    now,          \* the clock of the file system
    app,          \* App.state, the variant of ExecutionState (SpecApp);
                  \* "none" when the solver is used without the application
    finished_is_solved, \* ExecutionState::Finished.is_solved
    exiting_solution,   \* ExecutionState::Exiting.solution
    run_result,   \* what App::run has returned: << >> while it is running,
                  \* << r >> once it has returned r, Ok(words) or Err
    step,         \* the position in the loop of App::run: "systems" (at
                  \* the test of the while, before process_systems) or
                  \* "event" (before tui.draw and process_event)
    app_cursor,   \* App.cursor: << column, row >>
    highlight,    \* ExecutionState::Finished.highlight: None or an index
    clock,        \* Instant::now(), in microseconds
    until,        \* ExecutionState::Highlighting.until, in microseconds
    discovered    \* the reading of the clock when run_solver built the
                  \* last Highlighting state

\* The files and the outcome of reading them.
file_vars == << txt, cache, opened, now >>

\* The application around the solver.
\* The cursor, the highlight and the clock of the application.
ui_vars == << app_cursor, highlight, clock, until, discovered >>

app_vars ==
    << app, finished_is_solved, exiting_solution, run_result, step, ui_vars >>

vars ==
    << dictionary, fragments, path, solution, is_finished, pc, duration,
       found_word, returned, caller, ecount, parked, file_vars, app_vars >>

\* A file that does not exist.
Missing == [exists |-> FALSE]

\* No call has built a Dictionary from a file.
NotOpened == [kind |-> "none", dict |-> {}, err |-> "None", from |-> "none"]

\* No file is involved.
FilesUnused ==
    /\ txt = Missing
    /\ cache = Missing
    /\ opened = NotOpened
    /\ now = 0

\* cursor: (0, 0), no highlight, the clock at its origin.
UiUnused ==
    /\ app_cursor = << 0, 0 >>
    /\ highlight = None
    /\ clock = 0
    /\ until = 0
    /\ discovered = 0

\* The solver is used as a library, without the application.
AppUnused ==
    /\ app = "none"
    /\ finished_is_solved = FALSE
    /\ exiting_solution = << >>
    /\ run_result = << >>
    /\ step = "none"
    /\ UiUnused

\* Mutant of is_solved_of: the used indices are not checked.
is_solved_without_cover(frags, sol, finished) ==
    /\ finished
    /\ Cardinality({ word(sol[k], frags) :
                     k \in { j \in 1 .. Len(sol) : is_full(sol[j]) } }) >= MinFullWords

\* Mutant of is_solved_of: the finished flag is not checked.
is_solved_without_finished(frags, sol, finished) ==
    LET full_paths == { k \in 1 .. Len(sol) : is_full(sol[k]) }
    IN /\ Cardinality({ word(sol[k], frags) : k \in full_paths }) >= MinFullWords
       /\ Cardinality(UNION { Flattened(sol[k]) : k \in full_paths }) = NumFragments

\* Mutant of is_solved_of: more than 5 different full words are required.
is_solved_more_than_five(frags, sol, finished) ==
    LET full_paths == { k \in 1 .. Len(sol) : is_full(sol[k]) }
    IN /\ finished
       /\ Cardinality({ word(sol[k], frags) : k \in full_paths }) > MinFullWords
       /\ Cardinality(UNION { Flattened(sol[k]) : k \in full_paths }) = NumFragments

\* Solver::is_solved
is_solved_of(frags, sol, finished) ==
    IF ~finished
    THEN FALSE
    ELSE LET full_paths == { k \in 1 .. Len(sol) : is_full(sol[k]) }
             unique == { word(sol[k], frags) : k \in full_paths }
         IN IF Cardinality(unique) < MinFullWords
            THEN FALSE
            ELSE LET used_indices == UNION { Flattened(sol[k]) : k \in full_paths }
                 IN Cardinality(used_indices) = NumFragments

is_solved == is_solved_of(fragments, solution, is_finished)

\* Solver::solution
solution_words == [k \in 1 .. Len(solution) |-> word(solution[k], fragments)]

\* Solver::current_word
current_word == word(path, fragments)

\* Duration arguments: Duration::ZERO, a finite positive quantum, and
\* Duration::from_secs(u64::MAX), which no run outlasts.
Durations == {"zero", "finite", "forever"}

\* elapsed >= duration, for the clock readings the call can see.
Elapsed(d) ==
    CASE d = "zero" -> {TRUE}
      [] d = "forever" -> {FALSE}
      [] OTHER -> BOOLEAN

\* Mutant of SolveEnter: a finished solver is not returned at once.
SolveEnterWithoutFinishedCheck(d, who) ==
    /\ pc' = "loop"
    /\ duration' = d
    /\ found_word' = FALSE
    /\ returned' = << >>
    /\ caller' = who
    /\ UNCHANGED << path, solution, is_finished >>

\* Mutant of SolveEnter: every call starts the search again from the empty
\* path.
SolveEnterRestarting(d, who) ==
    IF ~is_disjoint(path)
    THEN /\ pc' = "assert_disjoint"
         /\ UNCHANGED << path, solution, is_finished, duration, found_word,
                         returned, caller >>
    ELSE IF is_finished
    THEN /\ returned' = << >>
         /\ found_word' = FALSE
         /\ caller' = who
         /\ UNCHANGED << path, solution, is_finished, pc, duration >>
    ELSE /\ pc' = "loop"
         /\ duration' = d
         /\ found_word' = FALSE
         /\ returned' = << >>
         /\ caller' = who
         /\ path' = EmptyPath
         /\ UNCHANGED << solution, is_finished >>

\* Mutant of SolveEnter: the clock is read before the first iteration, so a
\* call for Duration::ZERO returns at once.
SolveEnterClockFirst(d, who) ==
    IF ~is_disjoint(path)
    THEN /\ pc' = "assert_disjoint"
         /\ UNCHANGED << path, solution, is_finished, duration, found_word,
                         returned, caller >>
    ELSE IF is_finished \/ d = "zero"
    THEN /\ returned' = << >>
         /\ found_word' = FALSE
         /\ caller' = who
         /\ UNCHANGED << path, solution, is_finished, pc, duration >>
    ELSE /\ pc' = "loop"
         /\ duration' = d
         /\ found_word' = FALSE
         /\ returned' = << >>
         /\ caller' = who
         /\ UNCHANGED << path, solution, is_finished >>

\* Solver::solve up to the top of its loop: the entry assertion, the early
\* return of a finished solver, the initialisation of found_word.
SolveEnter(d, who) ==
    IF ~is_disjoint(path)
    THEN /\ pc' = "assert_disjoint"
         /\ UNCHANGED << path, solution, is_finished, duration, found_word,
                         returned, caller >>
    ELSE IF is_finished
    THEN /\ returned' = << >>
         /\ found_word' = FALSE
         /\ caller' = who
         /\ UNCHANGED << path, solution, is_finished, pc, duration >>
    ELSE /\ pc' = "loop"
         /\ duration' = d
         /\ found_word' = FALSE
         /\ returned' = << >>
         /\ caller' = who
         /\ UNCHANGED << path, solution, is_finished >>

\* Mutant of SolveCall: the words already recorded are taken out of the
\* dictionary.
SolveCallTakingWords(d) ==
    /\ pc = "idle"
    /\ caller # "solve_fully"
    /\ SolveEnter(d, "user")
    /\ dictionary' = { w \in dictionary :
                         \A k \in 1 .. Len(solution) : word(solution[k], fragments) # w }
    /\ UNCHANGED << fragments, ecount, parked,
                    file_vars, app_vars >>

\* A caller that owns the solver calls solve(d).
SolveCall(d) ==
    /\ pc = "idle"
    /\ caller # "solve_fully"
    /\ SolveEnter(d, "user")
    /\ UNCHANGED << dictionary, fragments, ecount, parked,
                    file_vars, app_vars >>

\* Mutant of SolveIteration: a found word does not end the call; the loop
\* goes on until the time is up and the last word found is returned.
SolveIterationKeepingOn ==
    /\ pc = "loop"
    /\ LET start_path == path
           is_word == contains(dictionary, current_word)
           pushed == IF is_word THEN Append(solution, path) ELSE solution
           found == found_word \/ is_word
           adv == Advance(path, contains_prefix(dictionary, current_word))
       IN /\ solution' = pushed
          /\ found_word' = found
          /\ CASE adv.outcome = "unreachable" ->
                    /\ pc' = "unreachable"
                    /\ UNCHANGED << path, is_finished, returned, duration >>
               [] adv.outcome = "exhausted" ->
                    /\ is_finished' = TRUE
                    /\ returned' = << >>
                    /\ pc' = "idle"
                    /\ duration' = "zero"
                    /\ UNCHANGED path
               [] OTHER ->
                    /\ path' = adv.path
                    /\ UNCHANGED is_finished
                    /\ IF adv.path = start_path
                       THEN /\ pc' = "assert_progress"
                            /\ UNCHANGED << returned, duration >>
                       ELSE \E expired \in Elapsed(duration) :
                               IF expired
                               THEN /\ returned' = IF found
                                                   THEN << pushed[Len(pushed)] >>
                                                   ELSE << >>
                                    /\ pc' = "idle"
                                    /\ duration' = "zero"
                               ELSE /\ pc' = "loop"
                                    /\ UNCHANGED << returned, duration >>
    /\ UNCHANGED << dictionary, fragments, caller, ecount, parked,
                    file_vars, app_vars >>

\* One iteration of the loop of solve.
SolveIteration ==
    /\ pc = "loop"
    /\ LET start_path == path
           is_word == contains(dictionary, current_word)
           pushed == IF is_word THEN Append(solution, path) ELSE solution
           found == found_word \/ is_word
           adv == Advance(path, contains_prefix(dictionary, current_word))
       IN /\ solution' = pushed
          /\ found_word' = found
          /\ CASE adv.outcome = "unreachable" ->
                    /\ pc' = "unreachable"
                    /\ UNCHANGED << path, is_finished, returned, duration >>
               [] adv.outcome = "exhausted" ->
                    /\ is_finished' = TRUE
                    /\ returned' = << >>
                    /\ pc' = "idle"
                    /\ duration' = "zero"
                    /\ UNCHANGED path
               [] OTHER ->
                    /\ path' = adv.path
                    /\ UNCHANGED is_finished
                    /\ IF adv.path = start_path
                       THEN /\ pc' = "assert_progress"
                            /\ UNCHANGED << returned, duration >>
                       ELSE IF found
                       THEN /\ returned' = << pushed[Len(pushed)] >>
                            /\ pc' = "idle"
                            /\ duration' = "zero"
                       ELSE \E expired \in Elapsed(duration) :
                               IF expired
                               THEN /\ returned' = << >>
                                    /\ pc' = "idle"
                                    /\ duration' = "zero"
                               ELSE /\ pc' = "loop"
                                    /\ UNCHANGED << returned, duration >>
    /\ UNCHANGED << dictionary, fragments, caller, ecount, parked,
                    file_vars, app_vars >>

\* The while loop of solve_fully: return the solver when it is finished,
\* otherwise call solve(Duration::from_secs(u64::MAX)).
SolveFullyWhile ==
    IF is_finished
    THEN /\ caller' = "solve_fully_done"
         /\ UNCHANGED << path, solution, is_finished, pc, duration,
                         found_word, returned >>
    ELSE SolveEnter("forever", "solve_fully")

\* A caller that owns the solver calls solve_fully: the first test of the
\* while loop.
SolveFullyCall ==
    /\ pc = "idle"
    /\ caller # "solve_fully"
    /\ SolveFullyWhile
    /\ UNCHANGED << dictionary, fragments, ecount, parked,
                    file_vars, app_vars >>

\* A solve call made by solve_fully has returned: the next test of the while
\* loop.
SolveFullyLoop ==
    /\ pc = "idle"
    /\ caller = "solve_fully"
    /\ SolveFullyWhile
    /\ UNCHANGED << dictionary, fragments, ecount, parked,
                    file_vars, app_vars >>

(***************************************************************************)
(* Inputs: puzzles and dictionaries.                                       *)
(***************************************************************************)
\* Extra words a dictionary holds beside its quartile words, at most.
MaxExtras == 2

\* Twenty fragments with pairwise different texts, of one or two characters.
PuzzleDistinct == [i \in Indices |-> IF i % 2 = 1 THEN << i, i >> ELSE << i >>]

\* Twenty fragments of which the last two repeat the texts of the first two.
PuzzleRepeats == [i \in Indices |-> PuzzleDistinct[i % 18]]

Puzzles == {PuzzleDistinct, PuzzleRepeats}

\* The word of the j-th row of the grid of PuzzleDistinct, j in 0..4.
Quartile(j) == Concat(<< 4 * j, 4 * j + 1, 4 * j + 2, 4 * j + 3 >>, PuzzleDistinct)

ExtraWords ==
    { Concat(<< 3, 2, 1, 0 >>, PuzzleDistinct),     \* a second word over row 0
      Concat(<< 19, 18, 17, 16 >>, PuzzleDistinct), \* the word of the last path
      << >>,                                        \* the empty word (a blank line)
      Concat(<< 0, 1 >>, PuzzleDistinct),           \* a prefix of Quartile(0)
      << 0, 1 >> }                                  \* ends inside fragment 1

Dictionaries ==
    { { Quartile(j) : j \in 0 .. (k - 1) } \cup extras :
        k \in 0 .. MinFullWords,
        extras \in { x \in SUBSET ExtraWords : Cardinality(x) <= MaxExtras } }

\* Solver::new, as a record of the fields that solving changes or reads
\* beside the dictionary.
NewSolver(frags) ==
    [fragments |-> frags, path |-> EmptyPath, solution |-> << >>,
     is_finished |-> FALSE]

\* Solver::new
Init ==
    /\ dictionary \in Dictionaries
    /\ fragments \in Puzzles
    /\ path = EmptyPath
    /\ solution = << >>
    /\ is_finished = FALSE
    /\ pc = "idle"
    /\ duration = "zero"
    /\ found_word = FALSE
    /\ returned = << >>
    /\ caller = "user"
    /\ ecount = 0
    /\ parked = NewSolver(<< >>)
    /\ FilesUnused
    /\ AppUnused

Next ==
    \/ \E d \in Durations : SolveCall(d)
    \/ SolveIteration
    \/ SolveFullyCall
    \/ SolveFullyLoop

Spec == Init /\ [][Next]_vars

(***************************************************************************)
(* Two solvers on one dictionary.  Solver holds the dictionary as          *)
(* Rc<Dictionary> and solve takes the solver by value, so the calls on the *)
(* two solvers alternate in any order but never overlap: between calls the *)
(* caller may put one solver aside and take up the other.                  *)
(***************************************************************************)
\* The dictionaries the two solvers are run on: a word of two fragments and
\* the word of the last path, with or without the empty word.
SharedDictionaries ==
    { { Concat(<< 0, 1 >>, PuzzleDistinct),
        Concat(<< 19, 18, 17, 16 >>, PuzzleDistinct) } \cup x :
        x \in { {}, { << >> } } }

\* Solver::new, twice, with clones of one Rc<Dictionary>.
InitShared ==
    /\ dictionary \in SharedDictionaries
    /\ fragments = PuzzleDistinct
    /\ path = EmptyPath
    /\ solution = << >>
    /\ is_finished = FALSE
    /\ pc = "idle"
    /\ duration = "zero"
    /\ found_word = FALSE
    /\ returned = << >>
    /\ caller = "user"
    /\ ecount = 0
    /\ parked = NewSolver(PuzzleRepeats)
    /\ FilesUnused
    /\ AppUnused

\* The caller, holding both solvers, turns to the other one.
SwitchSolver ==
    /\ pc = "idle"
    /\ caller # "solve_fully"
    /\ fragments' = parked.fragments
    /\ path' = parked.path
    /\ solution' = parked.solution
    /\ is_finished' = parked.is_finished
    /\ parked' = [fragments |-> fragments, path |-> path,
                  solution |-> solution, is_finished |-> is_finished]
    /\ found_word' = FALSE
    /\ returned' = << >>
    /\ caller' = "user"
    /\ UNCHANGED << dictionary, pc, duration, ecount, file_vars, app_vars >>

NextShared ==
    \/ \E d \in Durations : SolveCall(d)
    \/ SolveIteration
    \/ SolveFullyCall
    \/ SolveFullyLoop
    \/ SwitchSolver

SpecShared == InitShared /\ [][NextShared]_vars


(***************************************************************************)
(* The path operations on their own: SpecPath applies append, increment,   *)
(* pop and pop_and_increment in any order from the empty path; SpecEnum    *)
(* takes the unpruned step of solve (Advance with the prefix test always   *)
(* true) from the empty path until the search space is exhausted.          *)
(***************************************************************************)
\* Only the cursor (and the counter) is used: there is no puzzle.
InitPath ==
    /\ dictionary = {}
    /\ fragments = << >>
    /\ path = EmptyPath
    /\ solution = << >>
    /\ is_finished = FALSE
    /\ pc = "idle"
    /\ duration = "zero"
    /\ found_word = FALSE
    /\ returned = << >>
    /\ caller = "user"
    /\ ecount = 0
    /\ parked = NewSolver(<< >>)
    /\ FilesUnused
    /\ AppUnused

PathAppend ==
    /\ append(path).ok
    /\ path' = append(path).path
    /\ UNCHANGED << dictionary, fragments, solution, is_finished, pc, duration,
                    found_word, returned, caller, ecount, parked,
                    file_vars, app_vars >>

PathIncrement ==
    /\ increment(path).ok
    /\ path' = increment(path).path
    /\ UNCHANGED << dictionary, fragments, solution, is_finished, pc, duration,
                    found_word, returned, caller, ecount, parked,
                    file_vars, app_vars >>

PathPop ==
    /\ pop(path).ok
    /\ path' = pop(path).path
    /\ UNCHANGED << dictionary, fragments, solution, is_finished, pc, duration,
                    found_word, returned, caller, ecount, parked,
                    file_vars, app_vars >>

PathPopAndIncrement ==
    /\ pop_and_increment(path).ok
    /\ path' = pop_and_increment(path).path
    /\ UNCHANGED << dictionary, fragments, solution, is_finished, pc, duration,
                    found_word, returned, caller, ecount, parked,
                    file_vars, app_vars >>

NextPath == PathAppend \/ PathIncrement \/ PathPop \/ PathPopAndIncrement

SpecPath == InitPath /\ [][NextPath]_vars

\* The unpruned step: a new path is produced, or the enumeration stops.
EnumStep ==
    /\ ~is_finished
    /\ Advance(path, TRUE).outcome = "moved"
    /\ path' = Advance(path, TRUE).path
    /\ ecount' = ecount + 1
    /\ UNCHANGED << dictionary, fragments, solution, is_finished, pc, duration,
                    found_word, returned, caller, parked,
                    file_vars, app_vars >>

EnumStop ==
    /\ ~is_finished
    /\ Advance(path, TRUE).outcome = "exhausted"
    /\ is_finished' = TRUE
    /\ UNCHANGED << dictionary, fragments, path, solution, pc, duration,
                    found_word, returned, caller, ecount, parked,
                    file_vars, app_vars >>

NextEnum == EnumStep \/ EnumStop

SpecEnum == InitPath /\ [][NextEnum]_vars


(***************************************************************************)
(* The dictionary and its files (src/src/dictionary.rs).  A text file is a *)
(* sequence of lines; a line is a word, or cannot be read (an I/O error or *)
(* bytes that are not UTF-8).  A binary file is a sequence of numbers.     *)
(* bincode writes a collection as its length followed by its elements and  *)
(* a string as its length followed by its characters; the dictionary is    *)
(* written as the collection of its words.                                 *)
(***************************************************************************)
\* The latest reading of the clock of the file system.
MaxTime == 2

\* Mutant of populate: the words replace the content of the dictionary.
RECURSIVE populate_replacing(_, _)
populate_replacing(dict, words) ==
    IF words = << >> THEN {}
    ELSE {Head(words)} \cup populate_replacing(dict, Tail(words))

\* Dictionary::populate: for word in words { self.0.insert(word) }
RECURSIVE populate(_, _)
populate(dict, words) ==
    IF words = << >> THEN dict
    ELSE populate(dict \cup {Head(words)}, Tail(words))

\* The order in which the words of a dictionary are written: character by
\* character, a word before its extensions.
WordLess(a, b) ==
    \/ Len(a) < Len(b) /\ SubSeq(b, 1, Len(a)) = a
    \/ \E k \in 1 .. Len(a) :
          /\ k <= Len(b)
          /\ SubSeq(a, 1, k - 1) = SubSeq(b, 1, k - 1)
          /\ a[k] < b[k]

RECURSIVE WriteWords(_)
WriteWords(dict) ==
    IF dict = {} THEN << >>
    ELSE LET first == CHOOSE w \in dict : \A x \in dict \ {w} : WordLess(w, x)
         IN << Len(first) >> \o first \o WriteWords(dict \ {first})

\* Mutant of Serialize: a word of no characters is not written.
SerializeWithoutEmptyWord(dict) ==
    << Cardinality(dict \ { << >> }) >> \o WriteWords(dict \ { << >> })

\* bincode::serialize(self)
Serialize(dict) == << Cardinality(dict) >> \o WriteWords(dict)

\* Reading n words from bytes into the set words; ok is false when the bytes
\* run out.
RECURSIVE ReadWords(_, _, _)
ReadWords(bytes, n, words) ==
    IF n = 0 THEN [ok |-> TRUE, dict |-> words]
    ELSE IF bytes = << >> THEN [ok |-> FALSE, dict |-> {}]
    ELSE LET len == Head(bytes)
             rest == Tail(bytes)
         IN IF Len(rest) < len THEN [ok |-> FALSE, dict |-> {}]
            ELSE ReadWords(SubSeq(rest, len + 1, Len(rest)), n - 1,
                           words \cup { SubSeq(rest, 1, len) })

\* bincode::deserialize(&content)
Deserialize(bytes) ==
    IF bytes = << >> THEN [ok |-> FALSE, dict |-> {}]
    ELSE ReadWords(Tail(bytes), Head(bytes), {})

\* Results of the calls that build a Dictionary from a file.
OkDictionary(d, file) == [kind |-> "ok", dict |-> d, err |-> "None", from |-> file]

ErrIo(e, file) == [kind |-> "err", dict |-> {}, err |-> e, from |-> file]

\* line.unwrap() on an Err line: the thread panics.
Panicked(file) == [kind |-> "panic", dict |-> {}, err |-> "None", from |-> file]

GoodLine(w) == [ok |-> TRUE, text |-> w]

BadLine == [ok |-> FALSE, text |-> << >>]

TextFile(lines, mtime, meta) ==
    [exists |-> TRUE, meta |-> meta, mtime |-> mtime, lines |-> lines]

BinaryFile(bytes, mtime, meta) ==
    [exists |-> TRUE, meta |-> meta, mtime |-> mtime, bytes |-> bytes]

\* Dictionary::read_from_file
read_from_file(file) ==
    IF ~file.exists
    THEN ErrIo("NotFound", "text")
    ELSE IF \E k \in 1 .. Len(file.lines) : ~file.lines[k].ok
    THEN Panicked("text")
    ELSE OkDictionary(
             populate({}, [k \in 1 .. Len(file.lines) |-> file.lines[k].text]),
             "text")

\* Mutant of deserialize_from_file: bytes that do not deserialize give an
\* empty dictionary.
deserialize_from_file_lenient(file) ==
    IF ~file.exists
    THEN ErrIo("NotFound", "cache")
    ELSE OkDictionary(Deserialize(file.bytes).dict, "cache")

\* Dictionary::deserialize_from_file
deserialize_from_file(file) ==
    IF ~file.exists
    THEN ErrIo("NotFound", "cache")
    ELSE LET decoded == Deserialize(file.bytes)
         IN IF decoded.ok
            THEN OkDictionary(decoded.dict, "cache")
            ELSE ErrIo("InvalidData", "cache")

\* What File::create and write_all can do to the file: "ok", "create_fails"
\* (the file is left as it was) or "write_fails" (the file has been
\* truncated and holds a part of the content).
WriteOutcomes == {"ok", "create_fails", "write_fails"}

\* Dictionary::serialize_to_file at the given time: the file after the
\* call, and whether the call returned Ok.  cut is the number of bytes
\* written before a failure, fewer than the content has.
serialize_to_file(dict, file, outcome, cut, time) ==
    LET content == Serialize(dict)
        written == IF cut < Len(content) THEN cut ELSE Len(content) - 1
    IN CASE outcome = "ok" ->
              [ok |-> TRUE, file |-> BinaryFile(content, time, TRUE)]
         [] outcome = "create_fails" ->
              [ok |-> FALSE, file |-> file]
         [] OTHER ->
              [ok |-> FALSE,
               file |-> BinaryFile(SubSeq(content, 1, written), time, TRUE)]

\* Mutant of UseCache: a binary file as old as the text file is used.
UseCacheNotOlder(dict_file, txt_file) ==
    IF dict_file.exists /\ dict_file.meta
    THEN IF txt_file.exists /\ txt_file.meta
         THEN dict_file.mtime >= txt_file.mtime
         ELSE FALSE
    ELSE FALSE

\* The condition of the if in open: both modification times can be read and
\* the binary file is newer than the text file.
UseCache(dict_file, txt_file) ==
    IF dict_file.exists /\ dict_file.meta
    THEN IF txt_file.exists /\ txt_file.meta
         THEN dict_file.mtime > txt_file.mtime
         ELSE FALSE
    ELSE FALSE


\* Mutant of open: a failure to write the binary file is returned.
open_propagating(dict_file, txt_file, outcome, cut, time) ==
    IF UseCache(dict_file, txt_file)
    THEN [result |-> deserialize_from_file(dict_file), cache |-> dict_file]
    ELSE LET parsed == read_from_file(txt_file)
         IN IF parsed.kind # "ok"
            THEN [result |-> parsed, cache |-> dict_file]
            ELSE LET saved == serialize_to_file(parsed.dict, dict_file,
                                                outcome, cut, time)
                 IN [result |-> IF saved.ok THEN parsed
                                ELSE ErrIo("WriteFailed", "text"),
                     cache |-> saved.file]

\* Dictionary::open at the given time: its result and the binary file after
\* the call.
open(dict_file, txt_file, outcome, cut, time) ==
    IF UseCache(dict_file, txt_file)
    THEN [result |-> deserialize_from_file(dict_file), cache |-> dict_file]
    ELSE LET parsed == read_from_file(txt_file)
         IN IF parsed.kind # "ok"
            THEN [result |-> parsed, cache |-> dict_file]
            ELSE LET saved == serialize_to_file(parsed.dict, dict_file,
                                                outcome, cut, time)
                 IN [result |-> parsed, cache |-> saved.file]

\* The longest content a binary file of the model has, in bytes.
MaxCut == 8

Cuts == 0 .. MaxCut

\* The words of the dictionaries built in memory and read from files.
FileWords == { << >>, << 0 >>, << 0, 1 >>, << 1 >> }

\* The arguments of populate: lists of at most two words.
WordLists ==
    { << >> } \cup { << w >> : w \in FileWords }
        \cup { << v, w >> : v, w \in FileWords }

\* The contents of the text file: no line, two words, a word and a blank
\* line, a repeated word, a line that cannot be read.
TextContents ==
    { << >>,
      << GoodLine(<< 0 >>), GoodLine(<< 0, 1 >>) >>,
      << GoodLine(<< 1 >>), GoodLine(<< >>) >>,
      << GoodLine(<< 1 >>), GoodLine(<< 1 >>) >>,
      << GoodLine(<< 0 >>), BadLine >> }

\* The contents of the binary file before the first call: two dictionaries
\* written earlier, a file of no bytes, a file cut short.
CacheContents ==
    { Serialize({ << 1 >> }),
      Serialize({ << 0 >>, << 0, 1 >> }),
      << >>,
      << 2, 1, 0 >> }

\* A caller calls populate on the dictionary it holds.
DictPopulate ==
    /\ \E words \in WordLists : dictionary' = populate(dictionary, words)
    /\ UNCHANGED << fragments, path, solution, is_finished, pc, duration,
                    found_word, returned, caller, ecount, parked,
                    file_vars, app_vars >>

\* A caller calls serialize_to_file on the dictionary it holds.
DictSerialize ==
    /\ \E outcome \in WriteOutcomes, cut \in Cuts :
          cache' = serialize_to_file(dictionary, cache, outcome, cut, now).file
    /\ UNCHANGED << dictionary, fragments, path, solution, is_finished, pc,
                    duration, found_word, returned, caller, ecount, parked,
                    txt, opened, now, app_vars >>

\* A caller calls deserialize_from_file on the binary file.
DictDeserialize ==
    /\ opened' = deserialize_from_file(cache)
    /\ UNCHANGED << dictionary, fragments, path, solution, is_finished, pc,
                    duration, found_word, returned, caller, ecount, parked,
                    txt, cache, now, app_vars >>

\* A caller calls read_from_file on the text file.
DictReadFromFile ==
    /\ opened' = read_from_file(txt)
    /\ UNCHANGED << dictionary, fragments, path, solution, is_finished, pc,
                    duration, found_word, returned, caller, ecount, parked,
                    txt, cache, now, app_vars >>

\* A caller calls open.
DictOpen ==
    /\ \E outcome \in WriteOutcomes, cut \in Cuts :
          LET r == open(cache, txt, outcome, cut, now)
          IN /\ opened' = r.result
             /\ cache' = r.cache
    /\ UNCHANGED << dictionary, fragments, path, solution, is_finished, pc,
                    duration, found_word, returned, caller, ecount, parked,
                    txt, now, app_vars >>

\* The user saves the word list with some content.
EditText ==
    /\ \E lines \in TextContents :
          txt' = TextFile(lines, now, IF txt.exists THEN txt.meta ELSE TRUE)
    /\ UNCHANGED << dictionary, fragments, path, solution, is_finished, pc,
                    duration, found_word, returned, caller, ecount, parked,
                    cache, opened, now, app_vars >>

\* The clock of the file system advances.
TimePasses ==
    /\ now < MaxTime
    /\ now' = now + 1
    /\ UNCHANGED << dictionary, fragments, path, solution, is_finished, pc,
                    duration, found_word, returned, caller, ecount, parked,
                    txt, cache, opened, app_vars >>

\* Dictionary::new, and no file yet.
InitDictionary ==
    /\ dictionary = {}
    /\ fragments = << >>
    /\ path = EmptyPath
    /\ solution = << >>
    /\ is_finished = FALSE
    /\ pc = "idle"
    /\ duration = "zero"
    /\ found_word = FALSE
    /\ returned = << >>
    /\ caller = "user"
    /\ ecount = 0
    /\ parked = NewSolver(<< >>)
    /\ FilesUnused
    /\ AppUnused

NextDictionary == DictPopulate \/ DictSerialize \/ DictDeserialize

\* populate, serialize_to_file and deserialize_from_file in any order.
SpecDictionary == InitDictionary /\ [][NextDictionary]_vars

\* The files open finds: each may be missing, and its modification time may
\* be unreadable.
InitOpen ==
    /\ dictionary = {}
    /\ fragments = << >>
    /\ path = EmptyPath
    /\ solution = << >>
    /\ is_finished = FALSE
    /\ pc = "idle"
    /\ duration = "zero"
    /\ found_word = FALSE
    /\ returned = << >>
    /\ caller = "user"
    /\ ecount = 0
    /\ parked = NewSolver(<< >>)
    /\ txt \in {Missing} \cup
               { TextFile(lines, mtime, meta) :
                   lines \in TextContents, mtime \in 0 .. 1, meta \in BOOLEAN }
    /\ cache \in {Missing} \cup
                 { BinaryFile(bytes, mtime, meta) :
                     bytes \in CacheContents, mtime \in 0 .. 1, meta \in BOOLEAN }
    /\ opened = NotOpened
    /\ now = 1
    /\ AppUnused

NextOpen == DictOpen \/ DictReadFromFile \/ EditText \/ TimePasses

\* open and read_from_file, the word list being edited in between.
SpecOpen == InitOpen /\ [][NextOpen]_vars

(***************************************************************************)
(* The application (src/src/app.rs).  App::run loops over process_systems, *)
(* tui.draw and process_event until the state is Exiting.  The solver      *)
(* lives inside the states Solving, Highlighting and Finished; in          *)
(* Populating the fragments are the cells of the grid being typed.         *)
(***************************************************************************)
\* cells: [str8::default(); 20]
EmptyCells == [i \in Indices |-> << >>]

\* A grid whose last cell has been left empty.
PuzzleIncomplete ==
    [i \in Indices |-> IF i = MaxIndex THEN << >> ELSE PuzzleDistinct[i]]

\* The grids the user types.
AppCells == Puzzles \cup {PuzzleIncomplete}

\* The dictionaries the application is started with: no word, the five
\* words of the rows of PuzzleDistinct, and two of them with the word of
\* the last path.
AppDictionaries ==
    { {},
      { Quartile(j) : j \in 0 .. 4 },
      { Quartile(0), Quartile(1), Concat(<< 19, 18, 17, 16 >>, PuzzleDistinct) } }

\* The io::Result<Vec<String>> of run.
OkWords(words) == [kind |-> "ok", words |-> words]

ErrRun == [kind |-> "err", words |-> << >>]

\* App::new
InitApp ==
    /\ dictionary \in AppDictionaries
    /\ fragments = EmptyCells
    /\ path = EmptyPath
    /\ solution = << >>
    /\ is_finished = FALSE
    /\ pc = "idle"
    /\ duration = "zero"
    /\ found_word = FALSE
    /\ returned = << >>
    /\ caller = "user"
    /\ ecount = 0
    /\ parked = NewSolver(<< >>)
    /\ FilesUnused
    /\ app = "Populating"
    /\ finished_is_solved = FALSE
    /\ exiting_solution = << >>
    /\ run_result = << >>
    /\ step = "systems"
    /\ UiUnused

\* process_systems in the states that have no background task.
AppProcessSystems ==
    /\ step = "systems"
    /\ app \in {"Populating", "Finished"}
    /\ step' = "event"
    /\ UNCHANGED << dictionary, fragments, path, solution, is_finished, pc,
                    duration, found_word, returned, caller, ecount, parked,
                    file_vars, ui_vars, app, finished_is_solved, exiting_solution,
                    run_result >>

\* run_solver up to the top of the loop of solve: the state is swapped out
\* and solver.solve(Duration::from_millis(5)) is called.
AppRunSolver ==
    /\ step = "systems"
    /\ app = "Solving"
    /\ pc = "idle"
    /\ app' = "Swapping"
    /\ SolveEnter("finite", "run_solver")
    /\ UNCHANGED << dictionary, fragments, ecount, parked, file_vars, ui_vars,
                    finished_is_solved, exiting_solution, run_result, step >>

\* Mutant of AppRunSolverReturn: a tick that returns a word ends the search.
AppRunSolverReturnOnWord ==
    /\ app = "Swapping"
    /\ pc = "idle"
    /\ IF is_finished \/ returned # << >>
       THEN /\ app' = "Finished"
            /\ finished_is_solved' = is_solved
       ELSE /\ app' = "Solving"
            /\ UNCHANGED finished_is_solved
    /\ step' = "event"
    /\ UNCHANGED << dictionary, fragments, path, solution, is_finished, pc,
                    duration, found_word, returned, caller, ecount, parked,
                    file_vars, ui_vars, exiting_solution, run_result >>

\* run_solver after solve has returned: the next state of the application.
AppRunSolverReturn ==
    /\ app = "Swapping"
    /\ pc = "idle"
    /\ IF is_finished
       THEN /\ app' = "Finished"
            /\ finished_is_solved' = is_solved
       ELSE IF returned # << >>
       THEN /\ app' = "Highlighting"
            /\ UNCHANGED finished_is_solved
       ELSE /\ app' = "Solving"
            /\ UNCHANGED finished_is_solved
    /\ step' = "event"
    /\ UNCHANGED << dictionary, fragments, path, solution, is_finished, pc,
                    duration, found_word, returned, caller, ecount, parked,
                    file_vars, ui_vars, exiting_solution, run_result >>

\* run_highlighter: back to Solving once Instant::now() >= until.
AppRunHighlighter ==
    /\ step = "systems"
    /\ app = "Highlighting"
    /\ \E expired \in BOOLEAN :
          app' = IF expired THEN "Solving" ELSE "Highlighting"
    /\ step' = "event"
    /\ UNCHANGED << dictionary, fragments, path, solution, is_finished, pc,
                    duration, found_word, returned, caller, ecount, parked,
                    file_vars, ui_vars, finished_is_solved, exiting_solution,
                    run_result >>

\* process_event without a key that changes the state: poll finds no
\* event, the event is not a key press, or the key only moves a cursor.
AppNoEvent ==
    /\ step = "event"
    /\ step' = "systems"
    /\ UNCHANGED << dictionary, fragments, path, solution, is_finished, pc,
                    duration, found_word, returned, caller, ecount, parked,
                    file_vars, ui_vars, app, finished_is_solved, exiting_solution,
                    run_result >>

\* process_key_event_populating for the keys that edit cells: the grid
\* after some typing.
AppEditCells ==
    /\ step = "event"
    /\ app = "Populating"
    /\ fragments' \in AppCells
    /\ step' = "systems"
    /\ UNCHANGED << dictionary, path, solution, is_finished, pc, duration,
                    found_word, returned, caller, ecount, parked, file_vars, ui_vars,
                    app, finished_is_solved, exiting_solution, run_result >>

\* Mutant of AppStartSolver: the solver is started whatever the cells hold.
AppStartSolverUnchecked ==
    /\ step = "event"
    /\ app = "Populating"
    /\ app' = "Solving"
    /\ path' = NewSolver(fragments).path
    /\ solution' = NewSolver(fragments).solution
    /\ is_finished' = NewSolver(fragments).is_finished
    /\ step' = "systems"
    /\ UNCHANGED << dictionary, fragments, pc, duration, found_word,
                    returned, caller, ecount, parked, file_vars, ui_vars,
                    finished_is_solved, exiting_solution, run_result >>

\* Enter in Populating: start_solver.
AppStartSolver ==
    /\ step = "event"
    /\ app = "Populating"
    /\ IF \A i \in Indices : fragments[i] # << >>
       THEN /\ app' = "Solving"
            /\ path' = NewSolver(fragments).path
            /\ solution' = NewSolver(fragments).solution
            /\ is_finished' = NewSolver(fragments).is_finished
       ELSE UNCHANGED << app, path, solution, is_finished >>
    /\ step' = "systems"
    /\ UNCHANGED << dictionary, fragments, pc, duration, found_word,
                    returned, caller, ecount, parked, file_vars, ui_vars,
                    finished_is_solved, exiting_solution, run_result >>

\* Mutant of AppExit: the words found so far are kept in every state.
AppExitWithWords ==
    /\ step = "event"
    /\ app \in {"Populating", "Solving", "Highlighting", "Finished"}
    /\ exiting_solution' = solution_words
    /\ app' = "Exiting"
    /\ step' = "systems"
    /\ UNCHANGED << dictionary, fragments, path, solution, is_finished, pc,
                    duration, found_word, returned, caller, ecount, parked,
                    file_vars, ui_vars, finished_is_solved, run_result >>

\* Escape in Populating, Solving, Highlighting or Finished: exit.
AppExit ==
    /\ step = "event"
    /\ app \in {"Populating", "Solving", "Highlighting", "Finished"}
    /\ exiting_solution' = IF app = "Finished" THEN solution_words ELSE << >>
    /\ app' = "Exiting"
    /\ step' = "systems"
    /\ UNCHANGED << dictionary, fragments, path, solution, is_finished, pc,
                    duration, found_word, returned, caller, ecount, parked,
                    file_vars, ui_vars, finished_is_solved, run_result >>

\* tui.draw, poll or read fails: run returns the error.
AppRunFails ==
    /\ step = "event"
    /\ run_result' = << ErrRun >>
    /\ step' = "returned"
    /\ UNCHANGED << dictionary, fragments, path, solution, is_finished, pc,
                    duration, found_word, returned, caller, ecount, parked,
                    file_vars, ui_vars, app, finished_is_solved, exiting_solution >>

\* is_running() is false: run leaves its loop and returns the solution of
\* the Exiting state.
AppRunReturn ==
    /\ step = "systems"
    /\ app = "Exiting"
    /\ run_result' = << OkWords(exiting_solution) >>
    /\ step' = "returned"
    /\ UNCHANGED << dictionary, fragments, path, solution, is_finished, pc,
                    duration, found_word, returned, caller, ecount, parked,
                    file_vars, ui_vars, app, finished_is_solved, exiting_solution >>

NextApp ==
    \/ AppProcessSystems
    \/ AppRunSolver
    \/ SolveIteration
    \/ AppRunSolverReturn
    \/ AppRunHighlighter
    \/ AppNoEvent
    \/ AppEditCells
    \/ AppStartSolver
    \/ AppExit
    \/ AppRunFails
    \/ AppRunReturn

\* App::new followed by App::run.
SpecApp == InitApp /\ [][NextApp]_vars

(***************************************************************************)
(* The keys of the application.  In Populating the arrows, Tab and BackTab *)
(* move the cursor over the grid of 4 columns and 5 rows; in Finished Up   *)
(* and Down move the highlight over the solution list.  The unit tests     *)
(* call process_key_event on the App itself, so a key event or a           *)
(* process_systems call can also reach an App that is Exiting.             *)
(***************************************************************************)
\* (0..4).contains(&x)
GridColumns == 4

\* (0..5).contains(&y)
GridRows == 5

\* Mutant of move_cursor: the cursor is moved whenever the column is inside
\* the grid.
move_cursor_unchecked_row(c, dx, dy) ==
    LET x == c[1] + dx
        y == c[2] + dy
    IN IF x \in 0 .. (GridColumns - 1) THEN << x, y >> ELSE c

\* App::move_cursor
move_cursor(c, dx, dy) ==
    LET x == c[1] + dx
        y == c[2] + dy
    IN IF x \in 0 .. (GridColumns - 1) /\ y \in 0 .. (GridRows - 1)
       THEN << x, y >>
       ELSE c

\* App::move_index: new_index & 3 is the column and new_index >> 2 the row.
move_index(c, di) ==
    LET index == c[2] * 4 + c[1]
        new_index == index + di
    IN IF new_index \in 0 .. (NumFragments - 1)
       THEN << new_index % 4, new_index \div 4 >>
       ELSE c

\* App::current_index
current_index(c) == c[2] * 4 + c[1]

\* usize::MAX.  The integers of the model end at 2^31 - 1, which stands here
\* for 2^64 - 1: it is larger than the length of every list.
UsizeMax == 2147483647

\* a.wrapping_add(di as usize) for di = 1 and di = -1: a + di modulo 2^64.
wrapping_add(a, di) ==
    IF di < 0
    THEN IF a = 0 THEN UsizeMax ELSE a - 1
    ELSE IF a = UsizeMax THEN 0 ELSE a + 1

\* App::move_word_index on the highlight h of a Finished state whose
\* solution has len words: the new highlight.
move_word_index(h, di, len) ==
    IF h # None
    THEN LET new_highlight == wrapping_add(h, di)
         IN IF new_highlight >= 0 /\ new_highlight < len
            THEN new_highlight
            ELSE None
    ELSE IF di > 0
    THEN di - 1
    ELSE IF di < 0
    THEN wrapping_add(len, di)
    ELSE h

\* Up, Down, Left, Right as (dx, dy).
Arrows == { << 0, -1 >>, << 0, 1 >>, << -1, 0 >>, << 1, 0 >> }

\* The dictionaries of the runs in which keys are pressed: one word of two
\* cells, and one word that no cells spell.
KeyDictionaries ==
    { { Concat(<< 0, 1 >>, PuzzleDistinct) }, { << NumFragments >> } }

\* App::new
InitKeys ==
    /\ dictionary \in KeyDictionaries
    /\ fragments = EmptyCells
    /\ path = EmptyPath
    /\ solution = << >>
    /\ is_finished = FALSE
    /\ pc = "idle"
    /\ duration = "zero"
    /\ found_word = FALSE
    /\ returned = << >>
    /\ caller = "user"
    /\ ecount = 0
    /\ parked = NewSolver(<< >>)
    /\ FilesUnused
    /\ app = "Populating"
    /\ finished_is_solved = FALSE
    /\ exiting_solution = << >>
    /\ run_result = << >>
    /\ step = "systems"
    /\ UiUnused

\* An arrow key in Populating: move_cursor.
AppMoveCursor ==
    /\ step = "event"
    /\ app = "Populating"
    /\ \E d \in Arrows : app_cursor' = move_cursor(app_cursor, d[1], d[2])
    /\ step' = "systems"
    /\ UNCHANGED << dictionary, fragments, path, solution, is_finished, pc,
                    duration, found_word, returned, caller, ecount, parked,
                    file_vars, app, finished_is_solved, exiting_solution,
                    run_result, highlight, clock, until, discovered >>

\* Tab or BackTab in Populating: move_index.
AppMoveIndex ==
    /\ step = "event"
    /\ app = "Populating"
    /\ \E di \in { -1, 1 } : app_cursor' = move_index(app_cursor, di)
    /\ step' = "systems"
    /\ UNCHANGED << dictionary, fragments, path, solution, is_finished, pc,
                    duration, found_word, returned, caller, ecount, parked,
                    file_vars, app, finished_is_solved, exiting_solution,
                    run_result, highlight, clock, until, discovered >>

\* Up or Down in Finished: move_word_index.
AppMoveWordIndex ==
    /\ step = "event"
    /\ app = "Finished"
    /\ \E di \in { -1, 1 } :
          highlight' = move_word_index(highlight, di, Len(solution_words))
    /\ step' = "systems"
    /\ UNCHANGED << dictionary, fragments, path, solution, is_finished, pc,
                    duration, found_word, returned, caller, ecount, parked,
                    file_vars, app, finished_is_solved, exiting_solution,
                    run_result, app_cursor, clock, until, discovered >>

\* Mutant of AppKeyWhileExiting: Enter brings an Exiting application back
\* to Populating.
AppKeyWhileExitingRestarting ==
    /\ app = "Exiting"
    /\ step = "systems"
    /\ app' = "Populating"
    /\ exiting_solution' = << >>
    /\ UNCHANGED << dictionary, fragments, path, solution, is_finished, pc,
                    duration, found_word, returned, caller, ecount, parked,
                    file_vars, finished_is_solved, run_result, step,
                    ui_vars >>

\* process_key_event on an App that is Exiting: the arm for Exiting is
\* empty for every key.
AppKeyWhileExiting ==
    /\ app = "Exiting"
    /\ step = "systems"
    /\ UNCHANGED vars

\* process_systems on an App that is Exiting: the arm for Exiting is empty.
AppSystemsWhileExiting ==
    /\ app = "Exiting"
    /\ step = "systems"
    /\ UNCHANGED vars

NextKeys ==
    \/ NextApp
    \/ AppMoveCursor
    \/ AppMoveIndex
    \/ AppMoveWordIndex
    \/ AppKeyWhileExiting
    \/ AppSystemsWhileExiting

\* App::new followed by App::run or by calls of the handlers.
SpecKeys == InitKeys /\ [][NextKeys]_vars

(***************************************************************************)
(* The highlighter and the clock.  run_solver notes until when it builds a *)
(* Highlighting state and run_highlighter compares Instant::now() with it. *)
(* Time is counted in microseconds.  The time that passes outside          *)
(* Highlighting plays no part in what follows and is left out.             *)
(***************************************************************************)
\* The argument --highlight-duration of the program, App's
\* highlight_duration_µs.
highlight_duration_us == 2

\* Microseconds in a millisecond.
MicrosPerMilli == 1000

\* Duration::from_millis(n), in microseconds.
from_millis(n) == n * MicrosPerMilli

\* Instant::now() + Duration::from_millis(self.highlight_duration_µs)
HighlightUntil(t) == t + from_millis(highlight_duration_us)

\* The last reading of the clock in the model.
MaxClock == from_millis(highlight_duration_us) + highlight_duration_us

\* The time that passes between two looks at the clock.
ClockSteps == { highlight_duration_us, from_millis(highlight_duration_us) }

\* App::new with a dictionary of one word of two cells.
InitHighlight ==
    /\ dictionary = { Concat(<< 0, 1 >>, PuzzleDistinct) }
    /\ fragments = EmptyCells
    /\ path = EmptyPath
    /\ solution = << >>
    /\ is_finished = FALSE
    /\ pc = "idle"
    /\ duration = "zero"
    /\ found_word = FALSE
    /\ returned = << >>
    /\ caller = "user"
    /\ ecount = 0
    /\ parked = NewSolver(<< >>)
    /\ FilesUnused
    /\ app = "Populating"
    /\ finished_is_solved = FALSE
    /\ exiting_solution = << >>
    /\ run_result = << >>
    /\ step = "systems"
    /\ UiUnused

\* run_solver after solve has returned, with the instant until which a
\* found word is highlighted.
AppRunSolverReturnTimed ==
    /\ app = "Swapping"
    /\ pc = "idle"
    /\ IF is_finished
       THEN /\ app' = "Finished"
            /\ finished_is_solved' = is_solved
            /\ UNCHANGED << until, discovered >>
       ELSE IF returned # << >>
       THEN /\ app' = "Highlighting"
            /\ until' = HighlightUntil(clock)
            /\ discovered' = clock
            /\ UNCHANGED finished_is_solved
       ELSE /\ app' = "Solving"
            /\ UNCHANGED << finished_is_solved, until, discovered >>
    /\ step' = "event"
    /\ UNCHANGED << dictionary, fragments, path, solution, is_finished, pc,
                    duration, found_word, returned, caller, ecount, parked,
                    file_vars, exiting_solution, run_result, app_cursor,
                    highlight, clock >>

\* run_highlighter: if Instant::now() >= until, back to Solving.
AppRunHighlighterTimed ==
    /\ step = "systems"
    /\ app = "Highlighting"
    /\ app' = IF clock >= until THEN "Solving" ELSE "Highlighting"
    /\ step' = "event"
    /\ UNCHANGED << dictionary, fragments, path, solution, is_finished, pc,
                    duration, found_word, returned, caller, ecount, parked,
                    file_vars, ui_vars, finished_is_solved, exiting_solution,
                    run_result >>

\* Time passes while a word is highlighted.
AppClock ==
    /\ app = "Highlighting"
    /\ \E d \in ClockSteps :
          /\ clock + d <= MaxClock
          /\ clock' = clock + d
    /\ UNCHANGED << dictionary, fragments, path, solution, is_finished, pc,
                    duration, found_word, returned, caller, ecount, parked,
                    file_vars, app, finished_is_solved, exiting_solution,
                    run_result, step, app_cursor, highlight, until,
                    discovered >>

NextHighlight ==
    \/ AppProcessSystems
    \/ AppRunSolver
    \/ SolveIteration
    \/ AppRunSolverReturnTimed
    \/ AppRunHighlighterTimed
    \/ AppClock
    \/ AppNoEvent
    \/ AppEditCells
    \/ AppStartSolver
    \/ AppExit
    \/ AppRunFails
    \/ AppRunReturn

\* App::new and App::run with the clock.
SpecHighlight == InitHighlight /\ [][NextHighlight]_vars

(***************************************************************************)
(* The solution list on the screen.  tui.draw renders the state the        *)
(* application has after process_systems, that is at step "event".         *)
(***************************************************************************)
\* App::solution_list: the words of the solution paths, a word that has
\* been seen left out.
RECURSIVE Deduplicated(_, _)
Deduplicated(words, seen) ==
    IF words = << >> THEN << >>
    ELSE IF Head(words) \in seen
    THEN Deduplicated(Tail(words), seen)
    ELSE << Head(words) >> \o Deduplicated(Tail(words), seen \cup { Head(words) })

solution_list == Deduplicated(solution_words, {})

\* solver.solution().len() - 1 on usize, as the builds evaluate it: on
\* length 0 a build with overflow checks panics and a build without them
\* yields usize::MAX.
LastIndexOutcomes(len) ==
    IF len = 0
    THEN { [panic |-> TRUE, index |-> None],
           [panic |-> FALSE, index |-> UsizeMax] }
    ELSE { [panic |-> FALSE, index |-> len - 1] }

\* render_solution_list with highlight None (render_solving and
\* render_highlighting): what list_state.select is given.
SelectedWithoutHighlight == LastIndexOutcomes(Len(solution_words))

\* The states that tui.draw renders with render_solving or
\* render_highlighting.
DrawnWhileSolving == step = "event" /\ app \in {"Solving", "Highlighting"}

(***************************************************************************)
(* Reference notions the properties are stated with.  They are defined     *)
(* from the fragments and the dictionary alone, not from the search.       *)
(***************************************************************************)
Range(seq) == { seq[k] : k \in 1 .. Len(seq) }

\* The path whose occupied slots hold the given sequence of indices.
ToPath(seq) == [s \in Slots |-> IF s <= Len(seq) THEN seq[s] ELSE None]

\* The number of occupied slots of a path.
Occupied(p) == Cardinality({ s \in Slots : p[s] # None })

\* The occupied slots are the first n, and hold pairwise different indices.
IsIndexSequence(p, n) ==
    /\ \A s \in Slots : IF s <= n THEN p[s] \in Indices ELSE p[s] = None
    /\ \A s, t \in 1 .. n : s # t => p[s] # p[t]

\* The index sequences that extend seq by at least one index not in seq, at
\* most PathCapacity long, whose added fragments concatenate to rest.
RECURSIVE Extensions(_, _, _)
Extensions(seq, rest, frags) ==
    UNION { (IF frags[i] = rest THEN { Append(seq, i) } ELSE {})
            \cup (IF Len(seq) + 1 < PathCapacity
                  THEN Extensions(Append(seq, i),
                                  SubSeq(rest, Len(frags[i]) + 1, Len(rest)), frags)
                  ELSE {}) :
            i \in { j \in Indices : j \notin Range(seq) /\ IsPrefix(frags[j], rest) } }

\* The paths of 1 to 4 pairwise different indices whose fragments form w.
WordPaths(w, frags) == { ToPath(seq) : seq \in Extensions(<< >>, w, frags) }

\* The paths of 1 to 4 pairwise different indices that form a dictionary word.
ExpectedPaths == UNION { WordPaths(w, fragments) : w \in dictionary }

\* How many entries of the solution list equal p.
Occurrences(p) == Cardinality({ k \in 1 .. Len(solution) : solution[k] = p })

(***************************************************************************)
(* C1.  Once the solver is finished, the solution list holds every path of *)
(* 1 to 4 pairwise different indices whose fragments form a dictionary     *)
(* word, and holds each of them exactly once.                              *)
(***************************************************************************)
C1_FinishedSolutionComplete ==
    is_finished => \A p \in ExpectedPaths : Occurrences(p) = 1

\* A finished search that recorded words of different lengths, a full path
\* among them.
C1_Witness ==
    /\ is_finished
    /\ Cardinality(ExpectedPaths) >= 6
    /\ \E k \in 1 .. Len(solution) : is_full(solution[k])
    /\ \E k \in 1 .. Len(solution) : Occupied(solution[k]) = 2

\* p is a path of least to 4 pairwise different indices whose fragments, in
\* slot order, form a word of the dictionary.
EntryIsWord(p, least) ==
    /\ \E n \in least .. PathCapacity : IsIndexSequence(p, n)
    /\ Concat([s \in 1 .. Occupied(p) |-> p[s]], fragments) \in dictionary

(***************************************************************************)
(* C2, as claimed.  In every reachable state every entry of the solution   *)
(* list is a path of 1 to 4 pairwise different indices whose word is in    *)
(* the dictionary.  The search starts at the empty path and records it     *)
(* when the dictionary holds the empty word, so this fails.                *)
(***************************************************************************)
C2_EntriesAreWordsOfOneToFour ==
    \A k \in 1 .. Len(solution) : EntryIsWord(solution[k], 1)

(***************************************************************************)
(* C2, amended.  In every reachable state every entry of the solution list *)
(* is a path of 0 to 4 pairwise different indices whose word is in the     *)
(* dictionary (the empty path only when the empty word is in it).          *)
(***************************************************************************)
C2_EntriesAreWordsOfZeroToFour ==
    \A k \in 1 .. Len(solution) : EntryIsWord(solution[k], 0)

\* The empty path and a full path are both recorded.
C2_Witness ==
    /\ \E k \in 1 .. Len(solution) : solution[k] = EmptyPath
    /\ \E k \in 1 .. Len(solution) : is_full(solution[k])


(***************************************************************************)
(* C3.  solve_fully terminates and returns a finished solver, for every    *)
(* puzzle and dictionary.  Stated on finite runs: a solve_fully in         *)
(* progress has not been aborted by a panic, and a solver that solve_fully *)
(* has returned is finished.  With the empty dictionary the first          *)
(* iteration of solve increments the empty path and panics.                *)
(***************************************************************************)
C3_SolveFullyReturnsFinished ==
    /\ caller = "solve_fully" => pc \in {"idle", "loop"}
    /\ caller = "solve_fully_done" => is_finished

\* The number of index sequences that start with a given sequence of depth
\* indices, that sequence included.
RECURSIVE SubtreeSize(_)
SubtreeSize(depth) ==
    IF depth >= PathCapacity THEN 1
    ELSE 1 + (NumFragments - depth) * SubtreeSize(depth + 1)

\* The number of sequences of 1 to 4 pairwise different indices.
TotalPaths == NumFragments * SubtreeSize(1)

\* The position of p, counted from 1, among these sequences in lexicographic
\* order; 0 for the empty path.
RECURSIVE RankFrom(_, _)
RankFrom(p, s) ==
    IF s > PathCapacity \/ p[s] = None THEN 0
    ELSE Cardinality({ v \in Indices : v < p[s] /\ v \notin Taken(p, s - 1) })
            * SubtreeSize(s)
         + 1 + RankFrom(p, s + 1)

Rank(p) == RankFrom(p, 1)

(***************************************************************************)
(* C4.  The unpruned step produces, from the empty path, exactly the       *)
(* sequences of 1 to 4 pairwise different indices, each once: the k-th     *)
(* path produced is the k-th such sequence in lexicographic order (a       *)
(* prefix before its extensions), and the enumeration stops after the last *)
(* of them.                                                                *)
(***************************************************************************)
C4_EnumerationIsExact ==
    /\ \E n \in 0 .. PathCapacity : IsIndexSequence(path, n)
    /\ ecount = Rank(path)
    /\ is_finished => ecount = TotalPaths

\* The enumeration has stopped, at the last sequence.
C4_Witness ==
    /\ is_finished
    /\ path = << 19, 18, 17, 16 >>
    /\ ecount = 123520

NoRepeatedIndex(p) ==
    \A s, t \in Slots : (s # t /\ p[s] # None /\ p[t] # None) => p[s] # p[t]

(***************************************************************************)
(* C5.  append, increment, pop and pop_and_increment return a path without *)
(* a repeated index when applied to one, and so does the cursor update of  *)
(* solve, with and without descent: every path reached has pairwise        *)
(* different indices and passes is_disjoint.                               *)
(***************************************************************************)
C5_DisjointnessPreserved ==
    /\ NoRepeatedIndex(path)
    /\ is_disjoint(path)
    /\ \A r \in { append(path), increment(path), pop(path), pop_and_increment(path) } :
          r.ok => NoRepeatedIndex(r.path) /\ is_disjoint(r.path)
    /\ \A descend \in BOOLEAN :
          LET next == Advance(path, descend).path
          IN NoRepeatedIndex(next) /\ is_disjoint(next)

\* A full path on which increment has to skip indices held by other slots.
C5_Witness ==
    /\ path = << 1, 19, 3, 0 >>
    /\ increment(path).ok
    /\ increment(path).path = << 1, 19, 3, 2 >>


(***************************************************************************)
(* C6.  A solve call that appends a path to the solution list returns      *)
(* Some(that path).  found_word is set exactly when the call pushes, so:   *)
(* when a call that pushed has returned, it returned the last entry.  The  *)
(* call that finds the word of the last path (19, 18, 17, 16) pushes it    *)
(* and returns None with is_finished set.                                  *)
(***************************************************************************)
C6_PushedWordIsReturned ==
    (pc = "idle" /\ found_word) =>
        (Len(solution) > 0 /\ returned = << solution[Len(solution)] >>)

FullEntries == { k \in 1 .. Len(solution) : Occupied(solution[k]) = PathCapacity }

FullTexts ==
    { Concat([s \in Slots |-> solution[k][s]], fragments) : k \in FullEntries }

\* The full entries of the solution that use grid position i.
UsersOf(i) == { k \in FullEntries : \E s \in Slots : solution[k][s] = i }

(***************************************************************************)
(* C7, as claimed.  is_solved() is true only if the solution holds at      *)
(* least 5 different full-word texts and every grid position is used by    *)
(* exactly one full path of the solution.  The code requires the full      *)
(* paths to cover the positions, not to partition them, so this fails.     *)
(***************************************************************************)
C7_SolvedMeansPartition ==
    is_solved =>
        /\ Cardinality(FullTexts) >= 5
        /\ \A i \in Indices : Cardinality(UsersOf(i)) = 1

(***************************************************************************)
(* C7, amended.  is_solved() is true only if the solution holds at least 5 *)
(* different full-word texts and every grid position is used by at least   *)
(* one full path of the solution.                                          *)
(***************************************************************************)
C7_SolvedMeansCover ==
    is_solved =>
        /\ Cardinality(FullTexts) >= 5
        /\ \A i \in Indices : Cardinality(UsersOf(i)) >= 1

\* A solved puzzle in which a position is used by two full paths.
C7_Witness ==
    /\ is_solved
    /\ \E i \in Indices : Cardinality(UsersOf(i)) >= 2

(***************************************************************************)
(* C8.  is_solved() is false whenever is_finished() is false, whatever the *)
(* solution list holds.                                                    *)
(***************************************************************************)
C8_UnfinishedIsUnsolved == ~is_finished => ~is_solved

\* An unfinished solver whose solution list already holds five different
\* full words covering the grid.
C8_Witness ==
    /\ ~is_finished
    /\ Cardinality(FullTexts) >= 5
    /\ \A i \in Indices : UsersOf(i) # {}

FullWordPaths == { p \in ExpectedPaths : Occupied(p) = PathCapacity }

\* n full paths that form dictionary words with different texts, none in
\* texts, and that use exactly the positions of uncovered, each once.
RECURSIVE CoverExists(_, _, _)
CoverExists(uncovered, texts, n) ==
    IF n = 0 THEN uncovered = {}
    ELSE /\ uncovered # {}
         /\ LET first == CHOOSE i \in uncovered : \A j \in uncovered : i <= j
            IN \E p \in FullWordPaths :
                  /\ first \in Flattened(p)
                  /\ Flattened(p) \subseteq uncovered
                  /\ Concat([s \in Slots |-> p[s]], fragments) \notin texts
                  /\ CoverExists(uncovered \ Flattened(p),
                                 texts \cup { Concat([s \in Slots |-> p[s]], fragments) },
                                 n - 1)

HasQuartileCover == CoverExists(Indices, {}, 5)

(***************************************************************************)
(* C9.  When the dictionary holds five words of different texts, each      *)
(* formed by a full path, the five paths using all 20 positions, the       *)
(* solver that solve_fully returns is finished and solved and its          *)
(* solution() holds every dictionary word that the grid can form.          *)
(***************************************************************************)
C9_QuartilePuzzleIsSolved ==
    (caller = "solve_fully_done" /\ HasQuartileCover) =>
        /\ is_finished
        /\ is_solved
        /\ \A w \in dictionary :
              WordPaths(w, fragments) # {} => w \in Range(solution_words)

\* solve_fully has returned on a puzzle with such five words, and with
\* shorter words beside them.
C9_Witness ==
    /\ caller = "solve_fully_done"
    /\ HasQuartileCover
    /\ is_solved
    /\ \E k \in 1 .. Len(solution) : Occupied(solution[k]) < PathCapacity

(***************************************************************************)
(* C10.  A step taken on a finished solver (a solve call, for any          *)
(* duration) returns None, does not enter the loop and leaves the cursor,  *)
(* the solution list and the finished flag as they were; is_finished never *)
(* goes back to false.                                                     *)
(***************************************************************************)
C10_FinishedSolverIsFrozen ==
    [][ is_finished =>
          /\ is_finished'
          /\ path' = path
          /\ solution' = solution
          /\ returned' = << >>
          /\ pc' = "idle" ]_vars

\* solve has been called on a finished solver: the call that exhausted the
\* search pushed the last path and left found_word set, and a later call
\* has cleared it.
C10_Witness ==
    /\ is_finished
    /\ pc = "idle"
    /\ Len(solution) > 0
    /\ solution[Len(solution)] = path
    /\ ~found_word
    /\ returned = << >>

(***************************************************************************)
(* C11.  A solve call on an unfinished solver, whatever its duration,      *)
(* enters the loop and runs at least one iteration.  An iteration never    *)
(* fails the progress assertion, and one that ends normally either sets    *)
(* the finished flag or leaves the cursor at a different path, later in    *)
(* the order of the search: the cursor of a call that returns is therefore *)
(* not the cursor with which it was entered, unless the solver is          *)
(* finished.                                                               *)
(***************************************************************************)
C11_EveryCallMakesProgress ==
    [][ /\ (pc = "idle" /\ ~is_finished) => pc' = "loop"
        /\ pc = "loop" =>
              /\ pc' # "assert_progress"
              /\ pc' \in {"loop", "idle"} =>
                    \/ is_finished'
                    \/ (path' # path /\ Rank(path') > Rank(path)) ]_vars

\* A call on a solver in mid-search has returned because its time was up,
\* without a word: the cursor has moved on and the solver is not finished.
C11_Witness ==
    /\ pc = "idle"
    /\ caller = "user"
    /\ ~is_finished
    /\ ~found_word
    /\ returned = << >>
    /\ Len(solution) > 0
    /\ Rank(path) > Rank(solution[Len(solution)]) + 1

(***************************************************************************)
(* C12.  No solve call reaches an unreachable!() arm, for any dictionary,  *)
(* the empty one included: the path errors raised in the loop are only     *)
(* Overflow from append, IndexOverflow from increment and                  *)
(* CannotIncrementEmpty from pop_and_increment.  With the empty dictionary *)
(* the empty word is not a prefix of any stored word, the first iteration  *)
(* calls increment on the empty path, and its CannotIncrementEmpty falls   *)
(* into the unreachable!() arm.                                            *)
(***************************************************************************)
C12_NoUnreachableArm == pc # "unreachable"

\* The second components of a finite set of pairs << rank, path >>, by
\* increasing rank.
RECURSIVE SortedByRank(_)
SortedByRank(ranked) ==
    IF ranked = {} THEN << >>
    ELSE LET first == CHOOSE x \in ranked : \A y \in ranked : x[1] <= y[1]
         IN << first[2] >> \o SortedByRank(ranked \ {first})

\* The solution list of a completed search, from the fragments and the
\* dictionary alone: the empty path when the empty word is stored, then the
\* paths that form a stored word, in lexicographic order.
ReferenceSolution ==
    (IF << >> \in dictionary THEN << EmptyPath >> ELSE << >>)
        \o SortedByRank({ << Rank(p), p >> : p \in ExpectedPaths })

(***************************************************************************)
(* C13.  The result does not depend on how the search is cut into solve    *)
(* calls.  Whenever the caller holds the solver, the solution list is      *)
(* determined by the puzzle, the dictionary and the cursor: it is the part *)
(* of one fixed list that lies before the cursor, and the whole of it once *)
(* the solver is finished.  Every way of reaching the finished state, one  *)
(* solve_fully or any sequence of solve calls of any durations, therefore  *)
(* ends with the same solution list, in the same order, and the same       *)
(* is_solved value.                                                        *)
(***************************************************************************)
C13_SlicingDoesNotMatter ==
    pc = "idle" =>
    /\ solution = IF is_finished
                  THEN ReferenceSolution
                  ELSE LET cursor == Rank(path)
                       IN SelectSeq(ReferenceSolution,
                                    LAMBDA p : Rank(p) < cursor)
    /\ is_finished =>
          is_solved = is_solved_of(fragments, ReferenceSolution, TRUE)

\* The search was completed by solve calls of the user alone, never by
\* solve_fully: the last of them recorded the word of the last path and
\* exhausted the search; the calls before it each returned at the latest
\* when they had recorded one word.
C13_Witness ==
    /\ is_finished
    /\ caller = "user"
    /\ found_word
    /\ Len(solution) >= 6
    /\ is_solved

\* The solution list that a solver on frags and dict holds when its cursor
\* is at cursor, run on its own: the stored-word paths before the cursor
\* (all of them when finished), in lexicographic order, after the empty path
\* when the empty word is stored.
SolutionAlone(dict, frags, cursor, finished) ==
    LET paths == UNION { WordPaths(w, frags) : w \in dict }
        all == (IF << >> \in dict THEN << EmptyPath >> ELSE << >>)
                  \o SortedByRank({ << Rank(p), p >> : p \in paths })
        rank == Rank(cursor)
    IN IF finished THEN all ELSE SelectSeq(all, LAMBDA p : Rank(p) < rank)

(***************************************************************************)
(* C14.  No step of solve or solve_fully changes the dictionary or the     *)
(* fragments of a solver, and two solvers that share one dictionary, their *)
(* calls alternating in any order, each hold the solution list they would  *)
(* hold on their own at the same cursor, hence the same final solution.    *)
(***************************************************************************)
C14_SolversDoNotInterfere ==
    /\ [][ /\ dictionary' = dictionary
           /\ { fragments', parked'.fragments } = { fragments, parked.fragments }
           /\ (parked' = parked => fragments' = fragments) ]_vars
    /\ [](pc = "idle" =>
            /\ solution = SolutionAlone(dictionary, fragments, path, is_finished)
            /\ parked.solution = SolutionAlone(dictionary, parked.fragments,
                                               parked.path, parked.is_finished))

\* Both solvers are in mid-search, each with words recorded, at different
\* cursors: calls on the one were made between calls on the other.
C14_Witness ==
    /\ pc = "idle"
    /\ ~is_finished
    /\ ~parked.is_finished
    /\ Len(solution) >= 2
    /\ Len(parked.solution) >= 3
    /\ parked.solution # solution
    /\ parked.path # path

(***************************************************************************)
(* C15.  append on a full path returns Overflow.  On a path of k < 4       *)
(* pairwise different indices it returns a path whose first k slots are    *)
(* unchanged, whose slot k (counted from 0) holds the smallest index of    *)
(* 0..19 that the first k slots do not hold, and whose later slots are     *)
(* empty.                                                                  *)
(***************************************************************************)
C15_AppendContract ==
    LET k == Occupied(path)
        held == { path[s] : s \in 1 .. k }
        r == append(path)
    IN IF k = PathCapacity
       THEN ~r.ok /\ r.err = "Overflow"
       ELSE /\ r.ok
            /\ \A s \in 1 .. k : r.path[s] = path[s]
            /\ r.path[k + 1] \in Indices \ held
            /\ \A v \in Indices \ held : r.path[k + 1] <= v
            /\ \A s \in (k + 2) .. PathCapacity : r.path[s] = None

\* Three slots hold 0, 1 and 2 out of order: append has to skip all three.
C15_Witness ==
    /\ path = << 2, 0, 1, None >>
    /\ append(path).ok
    /\ append(path).path = << 2, 0, 1, 3 >>
    /\ ~append(append(path).path).ok

\* The largest element of a non-empty finite set of integers.
Largest(S) == CHOOSE v \in S : \A u \in S : u <= v

(***************************************************************************)
(* C16.  increment on the empty path returns CannotIncrementEmpty.  On a   *)
(* path of k >= 1 pairwise different indices it returns IndexOverflow      *)
(* exactly when the rightmost index is at or above the ceiling, the        *)
(* largest index of 0..19 that no other slot holds; the ceiling is 19      *)
(* minus the number of higher indices that other slots hold.  Otherwise it *)
(* returns the path with the rightmost index replaced by the smallest      *)
(* greater index that no other slot holds, all other slots unchanged.      *)
(***************************************************************************)
C16_IncrementContract ==
    LET k == Occupied(path)
        others == { path[s] : s \in 1 .. (k - 1) }
        ceiling == Largest(Indices \ others)
        greater == { v \in Indices \ others : v > path[k] }
        r == increment(path)
    IN IF k = 0
       THEN ~r.ok /\ r.err = "CannotIncrementEmpty"
       ELSE /\ ceiling = MaxIndex - Cardinality({ v \in others : v > ceiling })
            /\ (path[k] >= ceiling) = (greater = {})
            /\ IF path[k] >= ceiling
               THEN ~r.ok /\ r.err = "IndexOverflow"
               ELSE /\ r.ok
                    /\ r.path[k] \in greater
                    /\ \A v \in greater : r.path[k] <= v
                    /\ \A s \in Slots : s # k => r.path[s] = path[s]

\* Other slots hold 19 and 17: the ceiling is 18, and the increment of 16
\* skips 17; a second increment overflows.
C16_Witness ==
    /\ path = << 19, 17, 16, None >>
    /\ increment(path).ok
    /\ increment(path).path = << 19, 17, 18, None >>
    /\ increment(increment(path).path).err = "IndexOverflow"

\* pop applied n times; the error of the first pop that fails.
RECURSIVE PopTimes(_, _)
PopTimes(p, n) ==
    IF n = 0 THEN Ok(p)
    ELSE LET r == pop(p)
         IN IF r.ok THEN PopTimes(r.path, n - 1) ELSE r

(***************************************************************************)
(* C17.  pop on the empty path returns Underflow.  On a non-empty path it  *)
(* returns the path with the rightmost occupied slot cleared and every     *)
(* other slot unchanged.  Popping a full path four times reaches the empty *)
(* path, through paths of 3, 2 and 1 pairwise different indices, and a     *)
(* fifth pop underflows.                                                   *)
(***************************************************************************)
C17_PopContract ==
    LET k == Occupied(path)
        r == pop(path)
    IN /\ IF k = 0
          THEN ~r.ok /\ r.err = "Underflow"
          ELSE /\ r.ok
               /\ \A s \in Slots : r.path[s] = IF s = k THEN None ELSE path[s]
       /\ k = PathCapacity =>
             /\ \A n \in 1 .. PathCapacity :
                   /\ PopTimes(path, n).ok
                   /\ IsIndexSequence(PopTimes(path, n).path, PathCapacity - n)
                   /\ is_disjoint(PopTimes(path, n).path)
                   /\ \A s \in 1 .. (PathCapacity - n) :
                         PopTimes(path, n).path[s] = path[s]
             /\ PopTimes(path, PathCapacity).path = EmptyPath
             /\ PopTimes(path, PathCapacity + 1).err = "Underflow"

\* A full path, popped four times.
C17_Witness ==
    /\ path = << 19, 0, 18, 1 >>
    /\ pop(path).path = << 19, 0, 18, None >>
    /\ PopTimes(path, 4).ok
    /\ PopTimes(path, 4).path = EmptyPath

\* The first n slots of a path.
PathPrefix(p, n) == [s \in Slots |-> IF s <= n THEN p[s] ELSE None]

(***************************************************************************)
(* C18.  pop_and_increment on the empty path returns Underflow.  On a path *)
(* of k >= 1 pairwise different indices it returns increment(q) for the    *)
(* longest proper prefix q of the path on which increment succeeds, and    *)
(* CannotIncrementEmpty when increment succeeds on no non-empty proper     *)
(* prefix.                                                                 *)
(***************************************************************************)
C18_PopAndIncrementContract ==
    LET k == Occupied(path)
        succeeding == { n \in 1 .. (k - 1) : increment(PathPrefix(path, n)).ok }
        r == pop_and_increment(path)
    IN IF k = 0
       THEN ~r.ok /\ r.err = "Underflow"
       ELSE IF succeeding = {}
       THEN ~r.ok /\ r.err = "CannotIncrementEmpty"
       ELSE /\ r.ok
            /\ r = increment(PathPrefix(path, Largest(succeeding)))

\* increment overflows on the prefixes of three and of two indices and
\* succeeds on the prefix of one.
C18_Witness ==
    /\ path = << 5, 19, 18, 17 >>
    /\ ~increment(PathPrefix(path, 3)).ok
    /\ ~increment(PathPrefix(path, 2)).ok
    /\ pop_and_increment(path).ok
    /\ pop_and_increment(path).path = << 6, None, None, None >>

\* The lexicographic order on paths, slot by slot, an empty slot before every
\* index: a proper prefix comes before its extensions.
LexLess(p, q) ==
    \E s \in Slots :
        /\ \A t \in 1 .. (s - 1) : p[t] = q[t]
        /\ p[s] < q[s]

(***************************************************************************)
(* C19.  The cursor only ever moves forward in the lexicographic order of  *)
(* index sequences (a proper prefix before its extensions): every          *)
(* iteration of the loop of solve that does not exhaust the search leaves  *)
(* a strictly greater cursor, and nothing else changes the cursor, within  *)
(* a call and from one call to the next.  Hence no path is evaluated       *)
(* twice: at the top of an iteration every recorded path is strictly       *)
(* before the cursor, and the solution list is in strictly increasing      *)
(* order.                                                                  *)
(***************************************************************************)
C19_CursorStrictlyIncreases ==
    /\ [][ /\ path' # path => LexLess(path, path')
           /\ (pc = "loop" /\ pc' \in {"loop", "idle"} /\ ~is_finished') =>
                 LexLess(path, path') ]_vars
    /\ [](\A i, j \in 1 .. Len(solution) :
             i < j => LexLess(solution[i], solution[j]))
    /\ [](~is_finished =>
             \A k \in 1 .. Len(solution) : LexLess(solution[k], path))

\* The search has recorded several words, among them a full path, and has
\* backed out to a path of one index, within a call that has run more than
\* one iteration.
C19_Witness ==
    /\ pc = "loop"
    /\ Len(solution) >= 3
    /\ \E k \in 1 .. Len(solution) : is_full(solution[k])
    /\ Occupied(path) = 1
    /\ path[1] >= 4
    /\ ~found_word

\* The initial segments of a word, the empty one and the word itself
\* included.
PrefixesOf(w) == { SubSeq(w, 1, n) : n \in 0 .. Len(w) }

C21_PopulateContract ==
    /\ \A w \in FileWords : ~contains({}, w)
    /\ \A ws \in WordLists :
          LET after == populate(dictionary, ws)
          IN /\ \A w \in FileWords \cup { << 1, 0 >> } :
                   contains(after, w) = (contains(dictionary, w) \/ w \in Range(ws))
             /\ populate(after, ws) = after

\* populate has been called on a dictionary that held some of the words of
\* the list and lacked others.
C21_Witness ==
    /\ dictionary = { << 0 >>, << 0, 1 >> }
    /\ populate(dictionary, << << 0 >>, << >> >>) = { << >>, << 0 >>, << 0, 1 >> }
    /\ ~contains(dictionary, << >>)

\* Words asked about: the stored ones and two that no dictionary stores.
FileQueries == FileWords \cup { << 1, 0 >>, << 0, 1, 1 >> }

\* Two dictionaries answer every contains and contains_prefix query alike.
SameAnswers(d, e) ==
    \A q \in FileQueries :
        /\ contains(d, q) = contains(e, q)
        /\ contains_prefix(d, q) = contains_prefix(e, q)

C23_CacheOnlyWhenStrictlyNewer ==
    \A outcome \in WriteOutcomes, cut \in Cuts :
        LET r == open(cache, txt, outcome, cut, now)
            both_readable == /\ cache.exists /\ cache.meta
                             /\ txt.exists /\ txt.meta
            newer == both_readable /\ cache.mtime > txt.mtime
        IN /\ (r.result.from = "cache") = newer
           /\ newer => r.result = deserialize_from_file(cache)
           /\ ~newer => r.result = read_from_file(txt)
           /\ ~txt.exists =>
                 /\ r.result.kind = "err"
                 /\ r.result.from = "text"
                 /\ r.cache = cache

\* The binary file was written by open at the time the text was last
\* saved: the times are equal and readable, the binary file is valid, and
\* open parses the text.
C23_Witness ==
    /\ txt.exists /\ txt.meta
    /\ cache.exists /\ cache.meta
    /\ cache.mtime = MaxTime
    /\ txt.mtime = cache.mtime
    /\ Deserialize(cache.bytes).ok
    /\ opened.kind = "ok"
    /\ opened.from = "text"
    /\ cache.bytes = Serialize(opened.dict)
    /\ open(cache, txt, "ok", 0, now).result.from = "text"

(***************************************************************************)
(* C24.  When the text file is newer than the binary file, open returns    *)
(* the dictionary of the words of the text and leaves the binary file      *)
(* holding the serialization of that dictionary, and an open that follows, *)
(* the text unchanged, returns an equal dictionary.  Stated for a text     *)
(* whose lines can all be read.  When the write of the binary file fails   *)
(* after the file has been created, the file is left cut short with a new  *)
(* modification time, and the open that follows reads it and fails.        *)
(***************************************************************************)
C24_NewerTextRebuildsCache ==
    \A outcome \in WriteOutcomes, cut \in Cuts :
        LET text_newer == /\ txt.exists /\ txt.meta
                          /\ cache.exists /\ cache.meta
                          /\ txt.mtime > cache.mtime
                          /\ \A k \in 1 .. Len(txt.lines) : txt.lines[k].ok
            words == { txt.lines[k].text : k \in 1 .. Len(txt.lines) }
            first == open(cache, txt, outcome, cut, now)
        IN text_newer =>
              /\ first.result.kind = "ok"
              /\ first.result.dict = words
              /\ first.cache.exists
              /\ first.cache.bytes = Serialize(words)
              /\ \A later \in now .. MaxTime, outcome2 \in WriteOutcomes :
                    LET second == open(first.cache, txt, outcome2, 0, later)
                    IN /\ second.result.kind = "ok"
                       /\ second.result.dict = words

(***************************************************************************)
(* C25.  When open parses the text file and the write of the binary file   *)
(* fails, at File::create or at write_all after any number of bytes, open  *)
(* returns Ok with the dictionary of the words of the text: the failure of *)
(* the write is not the result of open.  Stated of open in every state of  *)
(* the files in which it does not select the binary file.                  *)
(***************************************************************************)
C25_CacheWriteFailureIsNotFatal ==
    \A outcome \in WriteOutcomes \ {"ok"}, cut \in Cuts :
        LET parsed == read_from_file(txt)
            r == open(cache, txt, outcome, cut, now)
        IN (~UseCache(cache, txt) /\ parsed.kind = "ok") =>
              /\ ~serialize_to_file(parsed.dict, cache, outcome, cut, now).ok
              /\ r.result.kind = "ok"
              /\ r.result.from = "text"
              /\ r.result.dict =
                    { txt.lines[k].text : k \in 1 .. Len(txt.lines) }

\* open has parsed a text of two words and its write of the binary file has
\* failed part way: the file holds the beginning of the serialization, and
\* open has returned the dictionary.
C25_Witness ==
    /\ opened.kind = "ok"
    /\ opened.from = "text"
    /\ Cardinality(opened.dict) = 2
    /\ cache.exists
    /\ cache.mtime = MaxTime
    /\ Len(cache.bytes) < Len(Serialize(opened.dict))
    /\ cache.bytes = SubSeq(Serialize(opened.dict), 1, Len(cache.bytes))
    /\ ~Deserialize(cache.bytes).ok

(***************************************************************************)
(* C26.  When open selects the binary file and its bytes do not            *)
(* deserialize, open returns an error of kind InvalidData.  It does not    *)
(* return what the text file holds, it leaves the binary file as it was    *)
(* whatever a write would have done, and the error is not the one an       *)
(* absent file gives.                                                      *)
(***************************************************************************)
C26_MalformedCacheIsInvalidData ==
    \A outcome \in WriteOutcomes, cut \in Cuts :
        LET r == open(cache, txt, outcome, cut, now)
        IN (UseCache(cache, txt) /\ ~Deserialize(cache.bytes).ok) =>
              /\ r.result = ErrIo("InvalidData", "cache")
              /\ r.result.kind = "err"
              /\ r.result.err # "NotFound"
              /\ r.result # read_from_file(txt)
              /\ r.cache = cache

\* open has selected a binary file that cannot be deserialized, next to a
\* text file of two words that parses, and has returned InvalidData.
C26_Witness ==
    /\ opened = ErrIo("InvalidData", "cache")
    /\ UseCache(cache, txt)
    /\ ~Deserialize(cache.bytes).ok
    /\ cache.bytes # << >>
    /\ read_from_file(txt).kind = "ok"
    /\ Cardinality(read_from_file(txt).dict) = 2

(***************************************************************************)
(* C27.  read_from_file returns an Err value whenever the file cannot be   *)
(* opened or a line of it cannot be read, and never aborts.  The code      *)
(* unwraps every line, so a line that cannot be read aborts the call.      *)
(***************************************************************************)
C27_ReadFromFileReturnsErr ==
    [][ (opened' # opened /\ opened'.from = "text") =>
           LET unreadable == \/ ~txt.exists
                             \/ \E k \in 1 .. Len(txt.lines) : ~txt.lines[k].ok
           IN /\ opened'.kind \in {"ok", "err"}
              /\ unreadable => opened'.kind = "err" ]_vars

(***************************************************************************)
(* C28.  The application enters Finished exactly when a solve tick         *)
(* returns a finished solver, and then the is_solved flag of the Finished  *)
(* state equals solver.is_solved().  It is never in Finished while the     *)
(* solver is unfinished, and never in Solving or Highlighting while the    *)
(* solver is finished, so still working, solved and finished but unsolved  *)
(* are three different outcomes.                                           *)
(***************************************************************************)
C28_FinishedIffSolverFinished ==
    /\ [](/\ app = "Finished" => (is_finished /\ finished_is_solved = is_solved)
          /\ app \in {"Solving", "Highlighting"} => ~is_finished
          /\ (app = "Finished" /\ finished_is_solved) => is_solved_of(fragments, solution, TRUE))
    /\ [][ /\ (app' = "Finished" /\ app # "Finished") =>
                 /\ app = "Swapping"
                 /\ pc = "idle"
                 /\ is_finished
                 /\ finished_is_solved' = is_solved
           /\ (app = "Swapping" /\ app' # "Swapping") =>
                 ((app' = "Finished") = is_finished)
           /\ (app = "Finished" /\ app' = "Finished") =>
                 /\ finished_is_solved' = finished_is_solved
                 /\ solution' = solution ]_vars

\* The search has ended with words found that do not solve the puzzle,
\* and the application shows it as finished and not solved.
C28_Witness ==
    /\ app = "Finished"
    /\ is_finished
    /\ ~finished_is_solved
    /\ Len(solution) >= 2

(***************************************************************************)
(* C29.  run returns the word list of solver.solution() only when the      *)
(* application exits from Finished.  Exiting from Populating, Solving or   *)
(* Highlighting returns the empty list, even when words have been found.   *)
(***************************************************************************)
C29_RunReturnsSolutionOnlyFromFinished ==
    /\ [][ /\ (app' = "Exiting" /\ app # "Exiting") =>
                 exiting_solution' =
                    IF app = "Finished" THEN solution_words ELSE << >>
           /\ (run_result' # run_result /\ run_result'[1].kind = "ok") =>
                 /\ app = "Exiting"
                 /\ run_result'[1].words = exiting_solution ]_vars
    /\ [](\A k \in 1 .. Len(run_result) :
             /\ run_result[k].words # << >> =>
                   (is_finished /\ run_result[k].words = solution_words)
             /\ (run_result[k].kind = "ok" /\ ~is_finished) =>
                   run_result[k].words = << >>)

\* The user has left while a found word was highlighted: run has returned
\* the empty list although the solver holds a word.
C29_Witness ==
    /\ run_result = << OkWords(<< >>) >>
    /\ app = "Exiting"
    /\ ~is_finished
    /\ Len(solution) >= 1
    /\ returned # << >>

(***************************************************************************)
(* C30.  Each solve call leaves the entries of the solution list as they   *)
(* are and where they are and appends at most one entry: the only change   *)
(* to the list is the append of the cursor by an iteration of a call that  *)
(* has not yet found a word, and that iteration is the last of the call.   *)
(* When the call returns Some(p), p is the new last entry of the list     *)
(* and the solver is not finished.                                         *)
(***************************************************************************)
C30_SolveAppendsAtMostOne ==
    [][ /\ \/ solution' = solution
           \/ /\ solution' = Append(solution, path)
              /\ pc = "loop"
              /\ ~found_word
              /\ found_word'
              /\ pc' # "loop"
        /\ (pc = "loop" /\ pc' = "idle" /\ returned' # << >>) =>
              /\ Len(solution') = Len(solution) + 1
              /\ SubSeq(solution', 1, Len(solution)) = solution
              /\ returned'[1] = solution'[Len(solution')]
              /\ ~is_finished'
        /\ (pc = "loop" /\ pc' = "idle" /\ ~found_word') =>
              solution' = solution ]_vars

\* A call on a solver that already holds two entries has returned Some(p)
\* with p appended behind them.
C30_Witness ==
    /\ pc = "idle"
    /\ returned # << >>
    /\ Len(solution) = 3
    /\ returned[1] = solution[3]
    /\ solution[1] # solution[3]
    /\ ~is_finished

\* The last path of the enumeration: every slot at its ceiling.
LastPath == ToPath(<< MaxIndex, MaxIndex - 1, MaxIndex - 2, MaxIndex - 3 >>)

\* The cursor is a non-empty prefix of the last path.
OnLastBranch(p) == \E n \in Slots : p = PathPrefix(LastPath, n)

(***************************************************************************)
(* C31.  is_finished becomes true only in an iteration of solve in which   *)
(* increment reports IndexOverflow and pop_and_increment reports           *)
(* CannotIncrementEmpty.  In an iteration of solve that happens exactly    *)
(* when the cursor is a non-empty prefix of (19, 18, 17, 16) that is not   *)
(* extended: it is full, or its word is the prefix of no stored word.      *)
(* That iteration leaves the cursor as it is.                              *)
(***************************************************************************)
C31_FinishedOnlyOnExhaustion ==
    [][ /\ (is_finished' /\ ~is_finished) =>
              /\ pc = "loop"
              /\ increment(path) = Err("IndexOverflow")
              /\ pop_and_increment(path) = Err("CannotIncrementEmpty")
              /\ OnLastBranch(path)
              /\ is_full(path) \/ ~contains_prefix(dictionary, current_word)
              /\ path' = path
        /\ (pc = "loop" /\ (pc' # pc \/ path' # path)) =>
              LET extended == /\ ~is_full(path)
                              /\ contains_prefix(dictionary, current_word)
                  reports == /\ ~extended
                             /\ increment(path) = Err("IndexOverflow")
                             /\ pop_and_increment(path)
                                   = Err("CannotIncrementEmpty")
              IN /\ reports = (OnLastBranch(path) /\ ~extended)
                 /\ reports = (is_finished' /\ ~is_finished) ]_vars

\* The search has ended at the cursor (19), whose word no stored word
\* begins with, after a word had been found.
C31_Witness ==
    /\ is_finished
    /\ pc = "idle"
    /\ path = PathPrefix(LastPath, 1)
    /\ Len(solution) >= 1

\* The occupied slots of a path are its first ones.
FilledLeftToRight(p) ==
    \A s \in Slots : p[s] # None => \A t \in Slots : t < s => p[t] # None

\* What C32 says of one path.
WellFormedPath(p) ==
    /\ FilledLeftToRight(p)
    /\ is_empty(p) = (Occupied(p) = 0)
    /\ is_full(p) = (Occupied(p) = PathCapacity)
    /\ \A s \in Slots : p[s] # None => p[s] \in 0 .. MaxIndex
    /\ Len(FlattenedSeq(p, 1)) = Occupied(p)
    /\ Rightmost(p) = Occupied(p)

(***************************************************************************)
(* C32.  In every path reached from the empty path by append, increment,   *)
(* pop and pop_and_increment the occupied slots are the first ones,        *)
(* is_empty holds exactly when no slot is occupied, is_full exactly when   *)
(* all four are, and every index lies in 0..19, so that indexing the       *)
(* twenty fragments stays in bounds; each operation that succeeds on such  *)
(* a path returns such a path.                                             *)
(***************************************************************************)
C32_PathShape ==
    /\ WellFormedPath(path)
    /\ \A r \in { append(path), increment(path), pop(path), pop_and_increment(path) } :
          r.ok => WellFormedPath(r.path)

\* A path of two indices at their ceilings, reached by popping: neither
\* empty nor full.
C32_Witness ==
    /\ path = PathPrefix(LastPath, 2)
    /\ ~is_empty(path)
    /\ ~is_full(path)
    /\ Occupied(path) = 2
    /\ pop(path).path = PathPrefix(LastPath, 1)
    /\ increment(path) = Err("IndexOverflow")

\* App::is_running
is_running == app # "Exiting"

\* The states in which a key event is dispatched to a handler.
RunningStates == {"Populating", "Solving", "Highlighting", "Finished"}

(***************************************************************************)
(* C33.  In each of Populating, Solving, Highlighting and Finished an Esc  *)
(* key press is handled, and moves the application to Exiting, where       *)
(* is_running() is false.  From Exiting no key event and no                *)
(* process_systems call leaves Exiting or changes its solution.            *)
(***************************************************************************)
C33_ExitingIsFinal ==
    /\ []((step = "event" /\ app \in RunningStates) => ENABLED AppExit)
    /\ [][ /\ AppExit => (app \in RunningStates /\ app' = "Exiting" /\ ~is_running')
           /\ app = "Exiting" =>
                 /\ app' = "Exiting"
                 /\ ~is_running'
                 /\ exiting_solution' = exiting_solution ]_vars

\* The application was left from Finished with words found, and run has
\* not returned yet: key events and process_systems calls find it Exiting.
C33_Witness ==
    /\ app = "Exiting"
    /\ ~is_running
    /\ step = "systems"
    /\ Len(exiting_solution) >= 2
    /\ ENABLED AppKeyWhileExiting
    /\ ENABLED AppSystemsWhileExiting

\* start_solver's test: self.cells.iter().all(|cell| !cell.is_empty())
AllCellsFilled == \A i \in Indices : fragments[i] # << >>

(***************************************************************************)
(* C34.  Enter in Populating starts a solver if and only if all twenty     *)
(* cells are non-empty: the state becomes Solving with a new solver whose  *)
(* cursor is the empty path, whose fragments are the cells and whose       *)
(* solution is empty.  Otherwise the state stays Populating.  Once solving *)
(* has started, no key event changes the cells.                            *)
(***************************************************************************)
C34_EnterStartsSolverIffGridFull ==
    /\ []((step = "event" /\ app = "Populating") => ENABLED AppStartSolver)
    /\ [][ /\ AppStartSolver =>
                 IF AllCellsFilled
                 THEN /\ app' = "Solving"
                      /\ path' = EmptyPath
                      /\ fragments' = fragments
                      /\ solution' = << >>
                      /\ ~is_finished'
                 ELSE /\ app' = "Populating"
                      /\ fragments' = fragments
           /\ (app = "Populating" /\ app' = "Solving") =>
                 (AllCellsFilled /\ AppStartSolver)
           /\ app # "Populating" =>
                 (fragments' = fragments /\ app' # "Populating") ]_vars

\* Enter has just been pressed on a grid of twenty filled cells, two of
\* them repeated: the solver is new and no tick has run yet.
C34_Witness ==
    /\ app = "Solving"
    /\ step = "systems"
    /\ pc = "idle"
    /\ fragments = PuzzleRepeats
    /\ AllCellsFilled
    /\ path = EmptyPath
    /\ solution = << >>
    /\ ~is_finished

\* The cells of the grid, as << column, row >>.
Grid == (0 .. (GridColumns - 1)) \X (0 .. (GridRows - 1))

\* The place of a cell in row-major order.
RowMajor(c) == c[2] * GridColumns + c[1]

(***************************************************************************)
(* C35.  After any sequence of arrow, Tab and BackTab key events in        *)
(* Populating the cursor is inside the grid, column 0..3 and row 0..4.     *)
(* An arrow moves it one cell in its direction, or leaves it where it is   *)
(* when that cell is outside the grid.  Tab and BackTab move it to the     *)
(* next and the previous cell in row-major order, and leave it where it is *)
(* at the last and at the first cell.                                      *)
(***************************************************************************)
C35_CursorStaysInGrid ==
    /\ app_cursor \in Grid
    /\ \A d \in Arrows :
          LET target == << app_cursor[1] + d[1], app_cursor[2] + d[2] >>
              moved == move_cursor(app_cursor, d[1], d[2])
          IN /\ moved \in Grid
             /\ moved = IF target \in Grid THEN target ELSE app_cursor
    /\ LET next == move_index(app_cursor, 1)
           previous == move_index(app_cursor, -1)
       IN /\ next \in Grid
          /\ previous \in Grid
          /\ RowMajor(next) = IF RowMajor(app_cursor) = NumFragments - 1
                              THEN RowMajor(app_cursor)
                              ELSE RowMajor(app_cursor) + 1
          /\ RowMajor(previous) = IF RowMajor(app_cursor) = 0
                                  THEN 0
                                  ELSE RowMajor(app_cursor) - 1
          /\ current_index(app_cursor) = RowMajor(app_cursor)

\* The cursor has been moved to the last cell of the grid, where Right,
\* Down and Tab leave it.
C35_Witness ==
    /\ app = "Populating"
    /\ app_cursor = << GridColumns - 1, GridRows - 1 >>
    /\ move_cursor(app_cursor, 1, 0) = app_cursor
    /\ move_cursor(app_cursor, 0, 1) = app_cursor
    /\ move_index(app_cursor, 1) = app_cursor
    /\ move_index(app_cursor, -1) = << GridColumns - 2, GridRows - 1 >>

(***************************************************************************)
(* C36.  In Finished, after any sequence of Up and Down key events, the    *)
(* highlight is absent or an index smaller than the length of the          *)
(* solution list, the empty list included.  When nothing is highlighted,   *)
(* Down sets the highlight to 0 and Up to the length minus one without     *)
(* looking at the length, so on the empty list Down leaves the index 0 and *)
(* Up the index usize::MAX.                                                *)
(***************************************************************************)
C36_HighlightInBounds ==
    app = "Finished" =>
        \/ highlight = None
        \/ highlight \in 0 .. (Len(solution_words) - 1)

(***************************************************************************)
(* C37.  Whenever the solution list is drawn without an explicit highlight *)
(* (Solving and Highlighting), the selected index solution().len() - 1 is  *)
(* the last item of the list that is drawn: the subtraction does not       *)
(* underflow and the index is a position of the deduplicated list.  The    *)
(* list is empty while no word has been found, and shorter than the        *)
(* solution when a word has been found on two paths.                       *)
(***************************************************************************)
C37_SelectedIsLastDrawnItem ==
    DrawnWhileSolving =>
        \A selected \in SelectedWithoutHighlight :
            /\ ~selected.panic
            /\ selected.index >= 0
            /\ selected.index < Len(solution_list)
            /\ selected.index = Len(solution_list) - 1

(***************************************************************************)
(* C38: after a solve tick has returned a word from an unfinished solver,  *)
(* the application stays Highlighting until highlight_duration             *)
(* microseconds have passed since the discovery and goes back to Solving   *)
(* on the first process_systems at or after that instant, with the same    *)
(* solver; the solver is not advanced while the word is highlighted.       *)
(***************************************************************************)
C38_HighlightLastsTheDuration ==
    [][AppRunHighlighterTimed =>
          /\ (app' = "Solving") <=>
                (clock >= discovered + highlight_duration_us)
          /\ app' \in { "Solving", "Highlighting" }
          /\ UNCHANGED << path, solution, is_finished, fragments,
                          dictionary >>]_vars

=============================================================================
